---- MODULE Spec2Model ----
(***************************************************************************)
(* Model of the DXF load pipeline: POST /api/dxf (pipeline route),         *)
(* aggregateRooms, assembleLoads and computeBuildingSummary, and of the    *)
(* retrieval module (ragCache, ragCacheSet, searchSaudiCode).              *)
(*                                                                         *)
(* Spec follows one run of the handler from await to await, with the       *)
(* retrieval fan-out seen through the outcome of Promise.all.              *)
(* SpecRetrieval follows the searchSaudiCode calls of concurrent callers   *)
(* from await to await over the shared cache.  SpecServer follows the      *)
(* uploads a server serves one after the other, each run as one step.      *)
(* SpecService follows one run of the two-phase handler of                 *)
(* dxf-load.post.ts, SpecStore the getVectorStore and resetVectorStore     *)
(* calls and the promise jobs of saudi-code-loader.ts, and SpecDxf one     *)
(* call of processDxfFile from function call to function call.             *)
(*                                                                         *)
(* Number representation.  Every decimal quantity of the program is held   *)
(* as an integer count of hundredths: areas in 0.01 m2, load densities in  *)
(* 0.01 VA/m2, loads in 0.01 VA, factors in 0.01.  round2 is computed on   *)
(* the exact rational value (Math.round rounds half towards +infinity);    *)
(* the binary floating-point error of the JavaScript doubles is not        *)
(* modelled.  Ahead of the unit conversion the coordinates of a drawing    *)
(* are counted in twentieths of a drawing unit and its raw areas in 1/400  *)
(* of a square unit.                                                       *)
(*                                                                         *)
(* Strings are sequences of one-character tokens; the curly quotes U+201C  *)
(* and U+201D are the tokens "LDQUO" and "RDQUO".                          *)
(***************************************************************************)
EXTENDS Integers, Sequences, FiniteSets, TLC

VARIABLES
  pc,                \* position of the POST handler: the await it is suspended at
  geometry,          \* the DxfGeometryResult returned by processDxfFile
  resolvedLabels,    \* aggregateRooms(geometry).resolvedLabels
  uniqueRoomInputs,  \* aggregateRooms(geometry).uniqueRoomInputs
  analysisResults,   \* what analyzeRooms returned ([] when it threw)
  warnings,          \* the warnings collected by the handler
  result,            \* the DxfProcessResult emitted by finish(), Null before
  events,            \* the SSE events enqueued on the response stream, in order
  stages,            \* the pipeline stages the handler has entered, in order
  codeContext,       \* the handler's codeContext ("" is the empty sequence)
  analyzeCalls,      \* the arguments of every analyzeRooms call of the handler
  now,               \* the server's clock, read by new Date()
  ragCache,          \* the Map ragCache of the retrieval module, in insertion order
  calls,             \* the searchSaudiCode calls made so far, each with its position
  fans,              \* the Promise.all of every retrieval fan-out started so far
  served,            \* the uploads served so far, each with its inputs and result
  dxfLabels,         \* the room names as processDxfFile returned them
  aiClassifications, \* what classifyRooms returned ([] when it threw)
  aiCategoryValues,  \* what extractCategoryValues returned, retries merged in
  initPromise,       \* the module variable initPromise: null or an initialization
  attempts,          \* the state of every initialization started by getVectorStore
  jobs,              \* the promise jobs of the initializations, in queue order
  storeLog,          \* the getVectorStore and resetVectorStore calls and the jobs run
  dxfPc,             \* the call of processDxfFile that comes next ("idle": none)
  dxf,               \* what DxfParser.parseSync returned for the uploaded content
  parsed,            \* the ParsedDxf returned by parseDxfContent
  uniquePolylines,   \* the PolylineData list returned by buildRoomPolygons
  units,             \* what detectUnits returned
  matched            \* what matchTextsToRooms returned, with the texts it was given

(* the variables of one run of the POST handler *)
runVars ==
  <<pc, geometry, resolvedLabels, uniqueRoomInputs, analysisResults, warnings,
    result, events, stages, codeContext, analyzeCalls>>

(* the variables of the retrieval module and of its callers *)
loaderVars == <<ragCache, calls, fans>>

(* the further variables of the two-phase handler of dxf-load.post.ts *)
serviceVars == <<dxfLabels, aiClassifications, aiCategoryValues>>

(* the variables the pipeline route, the retrieval module and the server's *)
(* sequence of uploads leave alone                                         *)
(* the vector store singleton of saudi-code-loader.ts *)
storeVars == <<initPromise, attempts, jobs, storeLog>>

(* the variables of processDxfFile of processor.ts *)
dxfVars == <<dxfPc, dxf, parsed, uniquePolylines, units, matched>>

otherVars == <<serviceVars, storeVars, dxfVars>>

vars == <<runVars, now, loaderVars, served, otherVars>>

----------------------------------------------------------------------------
(* Bounds of the model *)

MaxRooms == 3

MaxAnalysis == 2

(* the number of searchSaudiCode calls in a behaviour of the retrieval module *)
MaxCalls == 4

(* how many of the four static queries a retrieval fan-out of the model issues *)
FanOutWidth == 2

(* the capacity of ragCache: 100 in the source, scaled to the model *)
RAG_CACHE_MAX == 2

(* the number of uploads the server serves one after the other *)
MaxUploads == 3

(* the number of getVectorStore and resetVectorStore calls in a behaviour *)
MaxStoreCalls == 4

----------------------------------------------------------------------------
(* Nullable values: null is the empty sequence, a value v is <<v>> *)

Null == <<>>

Some(v) == <<v>>

----------------------------------------------------------------------------
(* Strings *)

LowerCase ==
  <<"a", "b", "c", "d", "e", "f", "g", "h", "i", "j", "k", "l", "m",
    "n", "o", "p", "q", "r", "s", "t", "u", "v", "w", "x", "y", "z">>

UpperCase ==
  <<"A", "B", "C", "D", "E", "F", "G", "H", "I", "J", "K", "L", "M",
    "N", "O", "P", "Q", "R", "S", "T", "U", "V", "W", "X", "Y", "Z">>

toUpperCase_char(c) ==
  IF \E i \in 1..Len(LowerCase) : LowerCase[i] = c
  THEN UpperCase[CHOOSE i \in 1..Len(LowerCase) : LowerCase[i] = c]
  ELSE c

toUpperCase(s) == [i \in 1..Len(s) |-> toUpperCase_char(s[i])]

RECURSIVE trimStart(_)
trimStart(s) ==
  IF Len(s) > 0 /\ Head(s) = " " THEN trimStart(Tail(s)) ELSE s

RECURSIVE trimEnd(_)
trimEnd(s) ==
  IF Len(s) > 0 /\ s[Len(s)] = " " THEN trimEnd(SubSeq(s, 1, Len(s) - 1)) ELSE s

trim(s) == trimEnd(trimStart(s))

normalizeRoomKey(label) == trim(toUpperCase(label))

DittoChars == {"\"", "LDQUO", "RDQUO", "'"}

DITTO_RE_test(s) == Len(s) >= 1 /\ \A i \in 1..Len(s) : s[i] \in DittoChars

----------------------------------------------------------------------------
(* round2(num / den), in hundredths: Math.round(n * 100) / 100, that is     *)
(* floor(100 * num / den + 1/2), with the integer part split off first.     *)

round2_truncating(num, den) ==
  100 * (num \div den) + (100 * (num % den)) \div den

round2(num, den) ==
  100 * (num \div den) + (200 * (num % den) + den) \div (2 * den)

----------------------------------------------------------------------------
(* Inputs.  A room is a name and an area: names are outputs of cleanText   *)
(* (trimmed, upper case) chosen by pickLabel, areas are in 0.01 m2 and at  *)
(* least MIN_ROOM_AREA.  A classification record is what the analysis      *)
(* service may return: any label, loadDensityVAm2 >= 0 (0.01 VA/m2) and    *)
(* 0 <= demandFactor <= 1 (0.01).                                          *)

RoomChoices ==
  { << <<"A">>, 2000 >>,
    << <<"A">>, 750 >>,
    << <<"B">>, 2000 >>,
    << <<"\"">>, 750 >> }

CatC1 == <<"C", "1">>

CatC2 == <<"C", "2">>

CatC10 == <<"C", "1", "0">>

CatC21 == <<"C", "2", "1">>

RoomAnalysis(label, type, category, density, factor) ==
  [roomLabel |-> label, roomType |-> type, customerCategory |-> category,
   loadDensityVAm2 |-> density, demandFactor |-> factor]

RoomAnalysisSet ==
  { RoomAnalysis(<<"A">>, "Bedroom", CatC1, 4000, 60),
    RoomAnalysis(<<"A">>, "Workshop", CatC10, 1255, 66),
    RoomAnalysis(<<"A">>, "Plant", CatC21, 0, 100),
    RoomAnalysis(<<" ", "b">>, "Shop", CatC2, 2500, 80) }

SeqsUpTo(S, n) == UNION { [1..k -> S] : k \in 0..n }

(* matchTextsToRooms numbers the rooms 1..n in file order *)
RawRoomLists ==
  { [i \in 1..Len(na) |-> [id |-> i, name |-> na[i][1], area |-> na[i][2]]] :
      na \in SeqsUpTo(RoomChoices, MaxRooms) }

AnalysisLists == SeqsUpTo(RoomAnalysisSet, MaxAnalysis)

----------------------------------------------------------------------------
(* aggregateRooms *)

isDitto(name) == DITTO_RE_test(trim(name))

(* the backward loop  for (j = i - 1; j >= 0; j--)  of pass 1 *)
RECURSIVE walkBack(_, _, _)
walkBack(arr, j, own) ==
  IF j < 1 THEN own
  ELSE IF ~isDitto(arr[j].name) THEN arr[j].name
  ELSE walkBack(arr, j - 1, own)

resolveLabel_previousRoom(rawRooms, i) ==
  IF ~isDitto(rawRooms[i].name) THEN rawRooms[i].name
  ELSE IF i > 1 THEN rawRooms[i - 1].name ELSE rawRooms[i].name

resolveLabel(rawRooms, i) ==
  IF ~isDitto(rawRooms[i].name) THEN rawRooms[i].name
  ELSE walkBack(rawRooms, i - 1, rawRooms[i].name)

resolveLabels(rawRooms) == [i \in 1..Len(rawRooms) |-> resolveLabel(rawRooms, i)]

(* index of the aggregate with this key in the insertion-ordered map, 0 if none *)
aggIndex(aggs, key) ==
  LET hits == { k \in 1..Len(aggs) : aggs[k].key = key }
  IN IF hits = {} THEN 0 ELSE CHOOSE k \in hits : TRUE

aggregateKey_rawName(rawRooms, resolved, i) == rawRooms[i].name

aggregateKey(rawRooms, resolved, i) == normalizeRoomKey(resolved[i])

(* pass 2: the loop over rawRooms that fills roomAggregates *)
RECURSIVE aggregateLoop(_, _, _, _)
aggregateLoop(rawRooms, resolved, i, aggs) ==
  IF i > Len(rawRooms) THEN aggs
  ELSE
    LET key == aggregateKey(rawRooms, resolved, i)
        k == aggIndex(aggs, key)
    IN IF k > 0
       THEN aggregateLoop(rawRooms, resolved, i + 1,
              [aggs EXCEPT ![k].totalAreaForType = @ + rawRooms[i].area,
                           ![k].roomCount = @ + 1])
       ELSE aggregateLoop(rawRooms, resolved, i + 1,
              Append(aggs, [key |-> key,
                            name |-> resolved[i],
                            area |-> rawRooms[i].area,
                            totalAreaForType |-> rawRooms[i].area,
                            roomCount |-> 1]))

roomAggregates(rawRooms) == aggregateLoop(rawRooms, resolveLabels(rawRooms), 1, <<>>)

toUniqueRoomInputs(aggs) ==
  [k \in 1..Len(aggs) |-> [name |-> aggs[k].name,
                           area |-> aggs[k].area,
                           totalAreaForType |-> aggs[k].totalAreaForType,
                           roomCount |-> aggs[k].roomCount]]

----------------------------------------------------------------------------
(* assembleLoads *)

COINCIDENT_FACTOR == 100

ERROR_TEXT == "AI classification failed for this room"

(* new Map(analysisResults.map(...)): a later record replaces an earlier    *)
(* one with the same key; get returns Null when the key is absent.          *)
analysisMapGet_rawKeys(analyses, key) ==
  LET hits == { k \in 1..Len(analyses) : analyses[k].roomLabel = key }
  IN IF hits = {} THEN Null
     ELSE Some(analyses[CHOOSE k \in hits : \A m \in hits : m <= k])

analysisMapGet(analyses, key) ==
  LET hits == { k \in 1..Len(analyses) :
                  normalizeRoomKey(analyses[k].roomLabel) = key }
  IN IF hits = {} THEN Null
     ELSE Some(analyses[CHOOSE k \in hits : \A m \in hits : m <= k])

lookupAnalysis(analyses, resolved, i) ==
  analysisMapGet(analyses, normalizeRoomKey(resolved[i]))

failedRoom_zeroLoads(raw) ==
  [id |-> raw.id, name |-> raw.name, type |-> "UNKNOWN",
   customerCategory |-> <<>>, area |-> raw.area,
   loadDensityVAm2 |-> Some(0), connectedLoad |-> Some(0),
   demandFactor |-> Some(0), demandLoad |-> Some(0),
   error |-> Some(ERROR_TEXT)]

failedRoom(raw) ==
  [id |-> raw.id, name |-> raw.name, type |-> "UNKNOWN",
   customerCategory |-> <<>>, area |-> raw.area,
   loadDensityVAm2 |-> Null, connectedLoad |-> Null,
   demandFactor |-> Null, demandLoad |-> Null,
   error |-> Some(ERROR_TEXT)]

connectedLoadOf(a, raw) == round2(a.loadDensityVAm2 * raw.area, 10000)

demandLoadOf_complement(connectedLoad, demandFactor, coincidentFactor) ==
  round2(connectedLoad * (200 - demandFactor) * coincidentFactor, 1000000)

demandLoadOf(connectedLoad, demandFactor, coincidentFactor) ==
  round2(connectedLoad * demandFactor * coincidentFactor, 1000000)

loadedRoom(raw, a) ==
  LET connectedLoad == connectedLoadOf(a, raw)
      demandLoad == demandLoadOf(connectedLoad, a.demandFactor, COINCIDENT_FACTOR)
  IN [id |-> raw.id, name |-> raw.name, type |-> a.roomType,
      customerCategory |-> a.customerCategory, area |-> raw.area,
      loadDensityVAm2 |-> Some(a.loadDensityVAm2),
      connectedLoad |-> Some(connectedLoad),
      demandFactor |-> Some(a.demandFactor),
      demandLoad |-> Some(demandLoad),
      error |-> Null]

roomLoadInput(raw, a) ==
  [connectedLoad |-> connectedLoadOf(a, raw),
   demandFactor |-> a.demandFactor,
   coincidentFactor |-> COINCIDENT_FACTOR,
   customerCategory |-> a.customerCategory,
   roomType |-> a.roomType,
   loadDensityVAm2 |-> a.loadDensityVAm2]

RECURSIVE typeArea(_, _, _, _)
typeArea(rawRooms, resolved, key, i) ==
  IF i > Len(rawRooms) THEN 0
  ELSE (IF normalizeRoomKey(resolved[i]) = key THEN rawRooms[i].area ELSE 0)
       + typeArea(rawRooms, resolved, key, i + 1)

assembleRoom_typeArea(rawRooms, analyses, resolved, i) ==
  LET analysis == lookupAnalysis(analyses, resolved, i)
      total == typeArea(rawRooms, resolved, normalizeRoomKey(resolved[i]), 1)
  IN IF analysis = Null THEN failedRoom(rawRooms[i])
     ELSE [loadedRoom([rawRooms[i] EXCEPT !.area = total], analysis[1])
             EXCEPT !.area = rawRooms[i].area]

(* the callback of geometry.rawRooms.map, for room i *)
assembleRoom(rawRooms, analyses, resolved, i) ==
  LET analysis == lookupAnalysis(analyses, resolved, i)
  IN IF analysis = Null THEN failedRoom(rawRooms[i])
     ELSE loadedRoom(rawRooms[i], analysis[1])

RECURSIVE collectLoadInputs_withFailed(_, _, _, _)
collectLoadInputs_withFailed(rawRooms, analyses, resolved, i) ==
  IF i > Len(rawRooms) THEN <<>>
  ELSE
    LET analysis == lookupAnalysis(analyses, resolved, i)
        rest == collectLoadInputs_withFailed(rawRooms, analyses, resolved, i + 1)
    IN IF analysis = Null
       THEN <<[connectedLoad |-> 0, demandFactor |-> 0,
               coincidentFactor |-> COINCIDENT_FACTOR, customerCategory |-> <<>>,
               roomType |-> "UNKNOWN", loadDensityVAm2 |-> 0]>> \o rest
       ELSE <<roomLoadInput(rawRooms[i], analysis[1])>> \o rest

(* roomLoadInputs.push(...) happens for the hits only, in room order *)
RECURSIVE collectLoadInputs(_, _, _, _)
collectLoadInputs(rawRooms, analyses, resolved, i) ==
  IF i > Len(rawRooms) THEN <<>>
  ELSE
    LET analysis == lookupAnalysis(analyses, resolved, i)
        rest == collectLoadInputs(rawRooms, analyses, resolved, i + 1)
    IN IF analysis = Null THEN rest
       ELSE <<roomLoadInput(rawRooms[i], analysis[1])>> \o rest

RECURSIVE collectLoadedRooms(_, _, _, _)
collectLoadedRooms(rawRooms, analyses, resolved, i) ==
  IF i > Len(rawRooms) THEN <<>>
  ELSE
    LET analysis == lookupAnalysis(analyses, resolved, i)
        rest == collectLoadedRooms(rawRooms, analyses, resolved, i + 1)
    IN IF analysis = Null THEN rest
       ELSE <<loadedRoom(rawRooms[i], analysis[1])>> \o rest

assembleLoads_dropFailed(rawRooms, analyses, resolved) ==
  [rooms |-> collectLoadedRooms(rawRooms, analyses, resolved, 1),
   roomLoadInputs |-> collectLoadInputs(rawRooms, analyses, resolved, 1),
   hasFailedRooms |-> \E i \in 1..Len(rawRooms) :
                        lookupAnalysis(analyses, resolved, i) = Null]

assembleLoads(rawRooms, analyses, resolved) ==
  [rooms |-> [i \in 1..Len(rawRooms) |->
                assembleRoom(rawRooms, analyses, resolved, i)],
   roomLoadInputs |-> collectLoadInputs(rawRooms, analyses, resolved, 1),
   hasFailedRooms |-> \E i \in 1..Len(rawRooms) :
                        lookupAnalysis(analyses, resolved, i) = Null]

----------------------------------------------------------------------------
(* computeBuildingSummary *)

(* a JavaScript number that may fail to be finite *)
Finite(v) == [kind |-> "finite", v |-> v]

NaN == [kind |-> "NaN", v |-> 0]

Infinity == [kind |-> "Infinity", v |-> 0]

(* round2(num / den) with the division of JavaScript: 0/0 is NaN, x/0 is    *)
(* infinite, and Math.round keeps both.                                     *)
roundedQuotient_truncating(num, den) ==
  IF den = 0 THEN (IF num = 0 THEN NaN ELSE Infinity)
  ELSE Finite(round2_truncating(num, den))

roundedQuotient(num, den) ==
  IF den = 0 THEN (IF num = 0 THEN NaN ELSE Infinity)
  ELSE Finite(round2(num, den))

computeRoomDemandLoad_truncating(input) ==
  round2_truncating(input.connectedLoad * input.demandFactor * input.coincidentFactor,
                    1000000)

computeRoomDemandLoad(input) ==
  round2(input.connectedLoad * input.demandFactor * input.coincidentFactor, 1000000)

(* String.prototype.localeCompare on category codes: digits collate before  *)
(* letters and by value, strings are compared character by character, and   *)
(* a proper prefix collates first.                                          *)
charRank(c) ==
  CASE c = "0" -> 0 [] c = "1" -> 1 [] c = "2" -> 2 [] c = "3" -> 3
    [] c = "4" -> 4 [] c = "5" -> 5 [] c = "6" -> 6 [] c = "7" -> 7
    [] c = "8" -> 8 [] c = "9" -> 9 [] OTHER -> 10

RECURSIVE localeCompare(_, _)
localeCompare(a, b) ==
  IF Len(a) = 0 /\ Len(b) = 0 THEN 0
  ELSE IF Len(a) = 0 THEN 0 - 1
  ELSE IF Len(b) = 0 THEN 1
  ELSE IF charRank(Head(a)) < charRank(Head(b)) THEN 0 - 1
  ELSE IF charRank(Head(a)) > charRank(Head(b)) THEN 1
  ELSE localeCompare(Tail(a), Tail(b))

(* index of the category in the insertion-ordered categoryMap, 0 if none *)
categoryIndex(cmap, category) ==
  LET hits == { k \in 1..Len(cmap) : cmap[k].category = category }
  IN IF hits = {} THEN 0 ELSE CHOOSE k \in hits : TRUE

(* the loop  for (const room of rooms)  with its three accumulators *)
RECURSIVE summaryLoop(_, _, _)
summaryLoop(rooms, i, acc) ==
  IF i > Len(rooms) THEN acc
  ELSE
    LET room == rooms[i]
        demandLoad == computeRoomDemandLoad(room)
        k == categoryIndex(acc.categoryMap, room.customerCategory)
        cmap ==
          IF k > 0
          THEN [acc.categoryMap EXCEPT
                  ![k].connectedLoad = @ + room.connectedLoad,
                  ![k].demandLoad = @ + demandLoad,
                  ![k].roomCount = @ + 1,
                  ![k].demandFactorSum = @ + room.demandFactor,
                  ![k].coincidentFactorSum = @ + room.coincidentFactor]
          ELSE Append(acc.categoryMap,
                 [category |-> room.customerCategory,
                  connectedLoad |-> room.connectedLoad,
                  demandLoad |-> demandLoad,
                  roomCount |-> 1,
                  demandFactorSum |-> room.demandFactor,
                  coincidentFactorSum |-> room.coincidentFactor,
                  loadDensityVAm2 |-> room.loadDensityVAm2])
    IN summaryLoop(rooms, i + 1,
         [totalConnectedLoad |-> acc.totalConnectedLoad + room.connectedLoad,
          totalDemandLoad |-> acc.totalDemandLoad + demandLoad,
          categoryMap |-> cmap])

(* Array.prototype.sort with the comparator a.localeCompare(b): a stable    *)
(* insertion into the already sorted prefix                                 *)
RECURSIVE insertSorted(_, _)
insertSorted(sorted, e) ==
  IF Len(sorted) = 0 THEN <<e>>
  ELSE IF localeCompare(e.category, Head(sorted).category) < 0
       THEN <<e>> \o sorted
       ELSE <<Head(sorted)>> \o insertSorted(Tail(sorted), e)

RECURSIVE sortFrom(_, _, _)
sortFrom(entries, i, sorted) ==
  IF i > Len(entries) THEN sorted
  ELSE sortFrom(entries, i + 1, insertSorted(sorted, entries[i]))

sortEntries_insertionOrder(entries) == entries

sortEntries(entries) == sortFrom(entries, 1, <<>>)

breakdownEntry(data) ==
  [category |-> data.category,
   roomCount |-> data.roomCount,
   connectedLoad |-> round2(data.connectedLoad, 100),
   demandFactor |-> round2(data.demandFactorSum, 100 * data.roomCount),
   coincidentFactor |-> round2(data.coincidentFactorSum, 100 * data.roomCount),
   demandLoad |-> round2(data.demandLoad, 100),
   loadDensityVAm2 |-> data.loadDensityVAm2]

effectiveDemandFactor_unguarded(totalDemandLoad, totalConnectedLoad) ==
  roundedQuotient(totalDemandLoad, totalConnectedLoad)

effectiveDemandFactor(totalDemandLoad, totalConnectedLoad) ==
  IF totalConnectedLoad > 0
  THEN roundedQuotient(totalDemandLoad, totalConnectedLoad)
  ELSE Finite(0)

computeBuildingSummary(rooms) ==
  LET acc == summaryLoop(rooms, 1,
               [totalConnectedLoad |-> 0, totalDemandLoad |-> 0, categoryMap |-> <<>>])
      sorted == sortEntries(acc.categoryMap)
  IN [totalConnectedLoad |-> round2(acc.totalConnectedLoad, 100),
      totalDemandLoad |-> round2(acc.totalDemandLoad, 100),
      totalDemandLoadKVA |-> round2(acc.totalDemandLoad, 100000),
      effectiveDemandFactor |->
        effectiveDemandFactor(acc.totalDemandLoad, acc.totalConnectedLoad),
      categoryBreakdown |-> [k \in 1..Len(sorted) |-> breakdownEntry(sorted[k])]]

----------------------------------------------------------------------------
(* POST: the handler of the pipeline route, one action per await *)

STEPS ==
  <<"Parsing DXF geometry", "Retrieving Saudi code context",
    "Analyzing rooms with AI", "Computing final loads">>

progress_zeroBased(index) ==
  [event |-> "progress", step |-> STEPS[index + 1], index |-> index,
   total |-> Len(STEPS)]

(* progress(index): the event carries index + 1 *)
progress(index) ==
  [event |-> "progress", step |-> STEPS[index + 1], index |-> index + 1,
   total |-> Len(STEPS)]

(* finish(result): the warnings are attached when there are any *)
finish(r, warns) == IF Len(warns) > 0 THEN r @@ [warnings |-> warns] ELSE r

emitResult(r) == [event |-> "result", data |-> r]

NoGeometry == [success |-> FALSE, rawRooms |-> <<>>]

failure(message) == [success |-> FALSE, error |-> message]

WARN_RAG == "Saudi code context retrieval failed"

WARN_AI == "AI room analysis failed"

(* step 4 and finish(): assembleLoads, computeBuildingSummary, the result *)
successResult(geo, analysis, resolved) ==
  LET assembled == assembleLoads(geo.rawRooms, analysis, resolved)
      summary == computeBuildingSummary(assembled.roomLoadInputs)
  IN [success |-> TRUE,
      rooms |-> assembled.rooms,
      totalConnectedLoad |-> summary.totalConnectedLoad,
      totalDemandLoad |-> summary.totalDemandLoad,
      totalDemandLoadKVA |-> summary.totalDemandLoadKVA,
      effectiveDemandFactor |-> summary.effectiveDemandFactor,
      coincidentFactor |-> 100,
      categoryBreakdown |-> summary.categoryBreakdown,
      totalRooms |-> Len(assembled.rooms),
      hasFailedRooms |-> assembled.hasFailedRooms]

(* timestamp: new Date().toISOString() in the literal handed to finish() *)
stamped(r, time) == r @@ [timestamp |-> time]

(* The merge of the retrieved sets: flat(), the filter that keeps the first  *)
(* occurrence of every content, and join("\n\n---\n\n").  A context is the   *)
(* sequence of the contents with the token "---" between them.               *)
RECURSIVE flat(_)
flat(sets) == IF Len(sets) = 0 THEN <<>> ELSE Head(sets) \o flat(Tail(sets))

RECURSIVE keepFirst(_, _)
keepFirst(contents, seen) ==
  IF Len(contents) = 0 THEN <<>>
  ELSE IF Head(contents) \in seen THEN keepFirst(Tail(contents), seen)
  ELSE <<Head(contents)>> \o keepFirst(Tail(contents), seen \cup {Head(contents)})

RECURSIVE join(_)
join(contents) ==
  IF Len(contents) = 0 THEN <<>>
  ELSE IF Len(contents) = 1 THEN contents
  ELSE <<Head(contents), "---">> \o join(Tail(contents))

mergeContext(ragSets) == join(keepFirst(flat(ragSets), {}))

(* what the four searchSaudiCode calls of a run return when none fails *)
RagSets == << <<"T2">>, <<"T7", "T2">>, <<"T11">>, <<>> >>

AllStages ==
  <<"processDxfFile", "aggregateRooms", "searchSaudiCode", "analyzeRooms",
    "assembleLoads", "computeBuildingSummary">>

(* nothing else of the server has run *)
otherInit ==
  /\ dxfLabels = <<>>
  /\ aiClassifications = <<>>
  /\ aiCategoryValues = <<>>
  /\ initPromise = Null
  /\ attempts = <<>>
  /\ jobs = <<>>
  /\ storeLog = <<>>
  /\ dxfPc = "idle"
  /\ dxf = Null
  /\ parsed = Null
  /\ uniquePolylines = <<>>
  /\ units = Null
  /\ matched = Null

(* the handler is suspended at  await processDxfFile(content)  after progress(0) *)
Init ==
  /\ pc = "processDxfFile"
  /\ geometry = NoGeometry
  /\ resolvedLabels = <<>>
  /\ uniqueRoomInputs = <<>>
  /\ analysisResults = <<>>
  /\ warnings = <<>>
  /\ result = Null
  /\ events = <<progress(0)>>
  /\ stages = <<"processDxfFile">>
  /\ codeContext = <<>>
  /\ analyzeCalls = <<>>
  /\ now = 0
  /\ ragCache = <<>>
  /\ calls = <<>>
  /\ fans = <<>>
  /\ served = <<>>
  /\ otherInit

(* processDxfFile caught an exception: geometry.success is false *)
GeometryFails ==
  /\ pc = "processDxfFile"
  /\ geometry' = NoGeometry
  /\ LET r == finish(stamped(failure("DXF parsing failed"), now), warnings)
     IN /\ result' = Some(r)
        /\ events' = Append(events, emitResult(r))
  /\ pc' = "closed"
  /\ now' = now + 1
  /\ UNCHANGED <<resolvedLabels, uniqueRoomInputs, analysisResults, warnings,
                 stages, codeContext, analyzeCalls>>
  /\ UNCHANGED <<loaderVars, served, otherVars>>

GeometryReturns_continues ==
  /\ pc = "processDxfFile"
  /\ \E rawRooms \in RawRoomLists :
       /\ geometry' = [success |-> TRUE, rawRooms |-> rawRooms]
       /\ resolvedLabels' = resolveLabels(rawRooms)
       /\ uniqueRoomInputs' = toUniqueRoomInputs(roomAggregates(rawRooms))
  /\ pc' = "searchSaudiCode"
  /\ events' = Append(events, progress(1))
  /\ stages' = stages \o <<"aggregateRooms", "searchSaudiCode">>
  /\ now' = now + 1
  /\ UNCHANGED <<result, analysisResults, warnings, codeContext, analyzeCalls>>
  /\ UNCHANGED <<loaderVars, served, otherVars>>

(* processDxfFile returned rooms: none is fatal; otherwise aggregateRooms,   *)
(* progress(1) and the four searchSaudiCode calls, up to  await Promise.all  *)
GeometryReturns ==
  /\ pc = "processDxfFile"
  /\ \E rawRooms \in RawRoomLists :
       /\ geometry' = [success |-> TRUE, rawRooms |-> rawRooms]
       /\ IF Len(rawRooms) = 0
          THEN LET r == finish(stamped(failure("No rooms found in this DXF file"), now),
                               warnings)
               IN /\ result' = Some(r)
                  /\ events' = Append(events, emitResult(r))
                  /\ pc' = "closed"
                  /\ UNCHANGED <<resolvedLabels, uniqueRoomInputs, stages>>
          ELSE /\ resolvedLabels' = resolveLabels(rawRooms)
               /\ uniqueRoomInputs' = toUniqueRoomInputs(roomAggregates(rawRooms))
               /\ pc' = "searchSaudiCode"
               /\ events' = Append(events, progress(1))
               /\ stages' = stages \o <<"aggregateRooms", "searchSaudiCode">>
               /\ UNCHANGED result
  /\ now' = now + 1
  /\ UNCHANGED <<analysisResults, warnings, codeContext, analyzeCalls>>
  /\ UNCHANGED <<loaderVars, served, otherVars>>

(* the continuation of  await Promise.all  up to  await analyzeRooms *)
callAnalyzeRooms(context) ==
  /\ codeContext' = context
  /\ events' = Append(events, progress(2))
  /\ stages' = Append(stages, "analyzeRooms")
  /\ analyzeCalls' = Append(analyzeCalls,
                            [rooms |-> uniqueRoomInputs, codeContext |-> context])
  /\ pc' = "analyzeRooms"

RetrievalSettles_keepsPartial ==
  /\ pc = "searchSaudiCode"
  /\ \E ok \in BOOLEAN :
       /\ warnings' = IF ok THEN warnings ELSE Append(warnings, WARN_RAG)
       /\ callAnalyzeRooms(IF ok THEN mergeContext(RagSets)
                           ELSE mergeContext(SubSeq(RagSets, 1, 1)))
  /\ now' = now + 1
  /\ UNCHANGED <<geometry, resolvedLabels, uniqueRoomInputs, analysisResults, result>>
  /\ UNCHANGED <<loaderVars, served, otherVars>>

(* Promise.all over the retrieval calls settled: fulfilled with the four     *)
(* sets, or rejected, which leaves codeContext = "" and adds a warning       *)
RetrievalSettles ==
  /\ pc = "searchSaudiCode"
  /\ \E ok \in BOOLEAN :
       /\ warnings' = IF ok THEN warnings ELSE Append(warnings, WARN_RAG)
       /\ callAnalyzeRooms(IF ok THEN mergeContext(RagSets) ELSE <<>>)
  /\ now' = now + 1
  /\ UNCHANGED <<geometry, resolvedLabels, uniqueRoomInputs, analysisResults, result>>
  /\ UNCHANGED <<loaderVars, served, otherVars>>

(* step 4: progress(3), assembleLoads, computeBuildingSummary, finish() *)
finishRun(list, warns) ==
  LET r == finish(stamped(successResult(geometry, list, resolvedLabels), now), warns)
  IN /\ result' = Some(r)
     /\ events' = events \o <<progress(3), emitResult(r)>>
     /\ stages' = stages \o <<"assembleLoads", "computeBuildingSummary">>
     /\ pc' = "closed"

(* analyzeRooms returned a list; steps 4 and finish() follow synchronously *)
AnalysisReturns ==
  /\ pc = "analyzeRooms"
  /\ \E list \in AnalysisLists :
       /\ analysisResults' = list
       /\ finishRun(list, warnings)
  /\ now' = now + 1
  /\ UNCHANGED <<geometry, resolvedLabels, uniqueRoomInputs, warnings,
                 codeContext, analyzeCalls>>
  /\ UNCHANGED <<loaderVars, served, otherVars>>

AnalysisThrows_aborts ==
  /\ pc = "analyzeRooms"
  /\ analysisResults' = <<>>
  /\ warnings' = Append(warnings, WARN_AI)
  /\ LET r == finish(stamped(failure("AI room analysis failed"), now), warnings')
     IN /\ result' = Some(r)
        /\ events' = Append(events, emitResult(r))
  /\ pc' = "closed"
  /\ now' = now + 1
  /\ UNCHANGED <<geometry, resolvedLabels, uniqueRoomInputs, stages,
                 codeContext, analyzeCalls>>
  /\ UNCHANGED <<loaderVars, served, otherVars>>

(* analyzeRooms threw: analysisResults stays [], a warning is added *)
AnalysisThrows ==
  /\ pc = "analyzeRooms"
  /\ analysisResults' = <<>>
  /\ warnings' = Append(warnings, WARN_AI)
  /\ finishRun(<<>>, warnings')
  /\ now' = now + 1
  /\ UNCHANGED <<geometry, resolvedLabels, uniqueRoomInputs, codeContext, analyzeCalls>>
  /\ UNCHANGED <<loaderVars, served, otherVars>>

Next ==
  \/ GeometryFails
  \/ GeometryReturns
  \/ RetrievalSettles
  \/ AnalysisReturns
  \/ AnalysisThrows

Spec == Init /\ [][Next]_vars

----------------------------------------------------------------------------
(* Properties *)

Emitted == pc = "closed" /\ result # Null

Succeeded == Emitted /\ result[1].success

RECURSIVE SumSeq(_)
SumSeq(q) == IF Len(q) = 0 THEN 0 ELSE Head(q) + SumSeq(Tail(q))

RemoveAt(q, i) == SubSeq(q, 1, i - 1) \o SubSeq(q, i + 1, Len(q))

(* c is num/den rounded to the nearest integer, a half rounding up *)
IsRounded(c, num, den) == 2 * den * c - den <= 2 * num /\ 2 * num < 2 * den * c + den

(* the label of a room, and of a classification record, upper-cased and trimmed *)
RoomKey(i) == normalizeRoomKey(resolvedLabels[i])

AnalysisKey(k) == normalizeRoomKey(analysisResults[k].roomLabel)

(* the label of room i has a classification record *)
Matched(i) == \E k \in 1..Len(analysisResults) : AnalysisKey(k) = RoomKey(i)

RoomIndices == 1..Len(geometry.rawRooms)

(* C1: a success result lists exactly one room per RawRoom, in the same    *)
(* order and with the same id and area, whatever the classification list   *)
(* holds, and its totalRooms is the number of RawRooms.                    *)
C1_OneRoomPerRawRoom ==
  Succeeded =>
    LET r == result[1]
    IN /\ Len(r.rooms) = Len(geometry.rawRooms)
       /\ \A i \in RoomIndices :
            /\ r.rooms[i].id = geometry.rawRooms[i].id
            /\ r.rooms[i].area = geometry.rawRooms[i].area
       /\ r.totalRooms = Len(geometry.rawRooms)

(* three rooms of which some are classified and some are not, under a      *)
(* classification list with a duplicated label                             *)
C1_Witness ==
  /\ Succeeded
  /\ Len(geometry.rawRooms) = 3
  /\ \E i, j \in RoomIndices : Matched(i) /\ ~Matched(j)
  /\ Len(analysisResults) = 2
  /\ AnalysisKey(1) = AnalysisKey(2)
  /\ Len(result[1].rooms) = 3

(* C2: a room without a classification record is emitted with null loads  *)
(* and an error, adds nothing to a total or a category aggregate, and the  *)
(* other rooms and the totals are those of the run without that room.      *)
C2_FailedRoomExcluded ==
  Succeeded =>
    \A i \in RoomIndices :
      ~Matched(i) =>
        LET r == result[1]
            without == successResult(
                         [geometry EXCEPT !.rawRooms = RemoveAt(geometry.rawRooms, i)],
                         analysisResults, RemoveAt(resolvedLabels, i))
        IN /\ r.rooms[i].connectedLoad = Null
           /\ r.rooms[i].demandLoad = Null
           /\ r.rooms[i].demandFactor = Null
           /\ r.rooms[i].loadDensityVAm2 = Null
           /\ r.rooms[i].error # Null
           /\ without.rooms = RemoveAt(r.rooms, i)
           /\ without.totalConnectedLoad = r.totalConnectedLoad
           /\ without.totalDemandLoad = r.totalDemandLoad
           /\ without.totalDemandLoadKVA = r.totalDemandLoadKVA
           /\ without.effectiveDemandFactor = r.effectiveDemandFactor
           /\ without.categoryBreakdown = r.categoryBreakdown

(* an unclassified room between two classified ones, with a positive total *)
C2_Witness ==
  /\ Succeeded
  /\ Len(geometry.rawRooms) = 3
  /\ Matched(1) /\ ~Matched(2) /\ Matched(3)
  /\ result[1].rooms[2].error = Some(ERROR_TEXT)
  /\ result[1].totalConnectedLoad > 0

(* C3: hasFailedRooms holds exactly when some emitted room has an error,   *)
(* which is exactly when some room's own resolved label, upper-cased and   *)
(* trimmed, is the label of no classification record; when every room      *)
(* matches there is no error and no null load.                             *)
C3_HasFailedRoomsIff ==
  Succeeded =>
    LET r == result[1]
    IN /\ r.hasFailedRooms <=> (\E i \in RoomIndices : r.rooms[i].error # Null)
       /\ \A i \in RoomIndices : (r.rooms[i].error # Null) <=> ~Matched(i)
       /\ (\A i \in RoomIndices : Matched(i)) =>
            /\ ~r.hasFailedRooms
            /\ \A i \in RoomIndices :
                 /\ r.rooms[i].error = Null
                 /\ r.rooms[i].connectedLoad # Null
                 /\ r.rooms[i].demandLoad # Null

(* every room matches, one of them only after its classification label is  *)
(* upper-cased and trimmed, and one through its ditto resolution           *)
C3_Witness ==
  /\ Succeeded
  /\ Len(geometry.rawRooms) = 3
  /\ \A i \in RoomIndices : Matched(i)
  /\ \E k \in 1..Len(analysisResults) :
       /\ analysisResults[k].roomLabel # AnalysisKey(k)
       /\ \E i \in RoomIndices : RoomKey(i) = AnalysisKey(k)
  /\ \E i \in RoomIndices : isDitto(geometry.rawRooms[i].name)
  /\ ~result[1].hasFailedRooms


(* the classification record used for room i has this density and factor *)
ClassifiedAs(i, density, factor) ==
  \E k \in 1..Len(analysisResults) :
    /\ AnalysisKey(k) = RoomKey(i)
    /\ analysisResults[k].loadDensityVAm2 = density
    /\ analysisResults[k].demandFactor = factor

SameType(i, j) == RoomKey(i) = RoomKey(j)

(* connectedLoad = round2(loadDensity * own area) and                      *)
(* demandLoad = round2(connectedLoad * demandFactor * 1.0) for room i      *)
OwnAreaLoads(i) ==
  LET room == result[1].rooms[i]
      density == room.loadDensityVAm2[1]
      factor == room.demandFactor[1]
  IN /\ ClassifiedAs(i, density, factor)
     /\ IsRounded(room.connectedLoad[1], density * geometry.rawRooms[i].area, 100)
     /\ IsRounded(room.demandLoad[1], room.connectedLoad[1] * factor, 100)
     /\ (density = 4000 /\ room.area = 2000 /\ factor = 60) =>
          (room.connectedLoad[1] = 80000 /\ room.demandLoad[1] = 48000)

(* C4 as stated: the loads of every matched room follow the two formulas,  *)
(* with coincident factor 1.0, and two rooms with the same label and       *)
(* different areas get different loads.                                    *)
C4_AsStated ==
  Succeeded =>
    /\ result[1].coincidentFactor = 100
    /\ \A i \in RoomIndices : Matched(i) => OwnAreaLoads(i)
    /\ \A i, j \in RoomIndices :
         (geometry.rawRooms[i].area # geometry.rawRooms[j].area
            /\ SameType(i, j) /\ Matched(i)) =>
           /\ result[1].rooms[i].connectedLoad # result[1].rooms[j].connectedLoad
           /\ result[1].rooms[i].demandLoad # result[1].rooms[j].demandLoad

(* C4 (amended): the loads of every matched room follow the two formulas   *)
(* on the room's own area, with coincident factor 1.0; of two rooms with   *)
(* the same label the larger one never gets the smaller load, it gets a    *)
(* larger connected load when density * (difference of the areas) is at    *)
(* least 0.01 VA, and both loads are 0 when the load density is 0.         *)
C4_OwnAreaLoads ==
  Succeeded =>
    /\ result[1].coincidentFactor = 100
    /\ \A i \in RoomIndices : Matched(i) => OwnAreaLoads(i)
    /\ \A i, j \in RoomIndices :
         (geometry.rawRooms[i].area < geometry.rawRooms[j].area
            /\ SameType(i, j) /\ Matched(i)) =>
           LET a == result[1].rooms[i]
               b == result[1].rooms[j]
               density == a.loadDensityVAm2[1]
           IN /\ a.connectedLoad[1] <= b.connectedLoad[1]
              /\ a.demandLoad[1] <= b.demandLoad[1]
              /\ density * (b.area - a.area) >= 100 =>
                   a.connectedLoad[1] < b.connectedLoad[1]
              /\ density = 0 =>
                   /\ a.connectedLoad[1] = 0 /\ b.connectedLoad[1] = 0
                   /\ a.demandLoad[1] = 0 /\ b.demandLoad[1] = 0

(* two rooms of one label, 20 m2 and 7.5 m2, at 40 VA/m2 and factor 0.6:   *)
(* 800 VA and 480 VA for the first, 300 VA and 180 VA for the second       *)
C4_Witness ==
  /\ Succeeded
  /\ \E i, j \in RoomIndices :
       /\ i # j /\ SameType(i, j) /\ Matched(i)
       /\ result[1].rooms[i].area = 2000
       /\ result[1].rooms[j].area = 750
       /\ result[1].rooms[i].loadDensityVAm2 = Some(4000)
       /\ result[1].rooms[i].demandFactor = Some(60)
       /\ result[1].rooms[i].connectedLoad = Some(80000)
       /\ result[1].rooms[i].demandLoad = Some(48000)
       /\ result[1].rooms[j].connectedLoad = Some(30000)
       /\ result[1].rooms[j].demandLoad = Some(18000)

Aggregated == geometry.success /\ Len(geometry.rawRooms) > 0

(* the rooms before room i that carry a name of their own *)
NamedBefore(i) == { j \in 1..(i - 1) : ~isDitto(geometry.rawRooms[j].name) }

(* C5: a ditto room resolves to the label of the nearest preceding room    *)
(* that is no ditto, consecutive ditto rooms resolve to the same label, a  *)
(* ditto room with no named room before it resolves to its own mark, and   *)
(* every other room resolves to its own label.                             *)
C5_DittoResolution ==
  Aggregated =>
    /\ Len(resolvedLabels) = Len(geometry.rawRooms)
    /\ \A i \in RoomIndices :
         LET name == geometry.rawRooms[i].name
         IN IF ~isDitto(name) THEN resolvedLabels[i] = name
            ELSE IF NamedBefore(i) = {} THEN resolvedLabels[i] = name
            ELSE \E j \in NamedBefore(i) :
                   /\ \A m \in NamedBefore(i) : m <= j
                   /\ resolvedLabels[i] = geometry.rawRooms[j].name
    /\ \A i \in RoomIndices :
         (i > 1 /\ isDitto(geometry.rawRooms[i].name)
                /\ isDitto(geometry.rawRooms[i - 1].name)) =>
           (NamedBefore(i) # {} => resolvedLabels[i] = resolvedLabels[i - 1])

(* a named room followed by two ditto rooms *)
C5_Witness ==
  /\ Aggregated
  /\ Len(geometry.rawRooms) = 3
  /\ ~isDitto(geometry.rawRooms[1].name)
  /\ isDitto(geometry.rawRooms[2].name)
  /\ isDitto(geometry.rawRooms[3].name)
  /\ resolvedLabels[2] = geometry.rawRooms[1].name
  /\ resolvedLabels[3] = geometry.rawRooms[1].name

RoomKeys == { RoomKey(i) : i \in RoomIndices }

RoomsOfKey(key) == { i \in RoomIndices : RoomKey(i) = key }

RECURSIVE AreaOf(_)
AreaOf(S) ==
  IF S = {} THEN 0
  ELSE LET i == CHOOSE x \in S : TRUE
       IN geometry.rawRooms[i].area + AreaOf(S \ {i})

(* C6: one UniqueRoomInput per distinct upper-cased trimmed resolved       *)
(* label, carrying the summed area and the number of all rooms of that     *)
(* key, so that the instance counts add up to the number of RawRooms.      *)
C6_OneInputPerKey ==
  Aggregated =>
    /\ Len(uniqueRoomInputs) = Cardinality(RoomKeys)
    /\ \A key \in RoomKeys :
         LET rooms == RoomsOfKey(key)
             area == AreaOf(rooms)
         IN \E k \in 1..Len(uniqueRoomInputs) :
              /\ normalizeRoomKey(uniqueRoomInputs[k].name) = key
              /\ uniqueRoomInputs[k].totalAreaForType = area
              /\ uniqueRoomInputs[k].roomCount = Cardinality(rooms)
    /\ SumSeq([k \in 1..Len(uniqueRoomInputs) |-> uniqueRoomInputs[k].roomCount])
         = Len(geometry.rawRooms)

(* two rooms of one name, 20 m2 and 7.5 m2, one of them a ditto, and a     *)
(* third room of another name                                              *)
C6_Witness ==
  /\ Aggregated
  /\ Len(geometry.rawRooms) = 3
  /\ Len(uniqueRoomInputs) = 2
  /\ \E i \in RoomIndices : isDitto(geometry.rawRooms[i].name)
  /\ uniqueRoomInputs[1].totalAreaForType = 2750
  /\ uniqueRoomInputs[1].roomCount = 2
  /\ uniqueRoomInputs[2].roomCount = 1


LoadedRooms == { i \in RoomIndices : result[1].rooms[i].error = Null }

RECURSIVE RoomLoadSum(_, _)
RoomLoadSum(S, field) ==
  IF S = {} THEN 0
  ELSE LET i == CHOOSE x \in S : TRUE
       IN (IF result[1].rooms[i][field] = Null THEN 0 ELSE result[1].rooms[i][field][1])
          + RoomLoadSum(S \ {i}, field)

Breakdown == result[1].categoryBreakdown

BreakdownSum(field) == SumSeq([k \in 1..Len(Breakdown) |-> Breakdown[k][field]])

(* C7: in a success result totalConnectedLoad is the sum of connectedLoad  *)
(* over the rooms without an error and over the categoryBreakdown entries, *)
(* and totalDemandLoad is the sum of the rooms' non-null demandLoad and of *)
(* the entries' demandLoad.                                                *)
C7_TotalsAreSums ==
  Succeeded =>
    /\ result[1].totalConnectedLoad = RoomLoadSum(LoadedRooms, "connectedLoad")
    /\ result[1].totalConnectedLoad = BreakdownSum("connectedLoad")
    /\ result[1].totalDemandLoad = RoomLoadSum(RoomIndices, "demandLoad")
    /\ result[1].totalDemandLoad = BreakdownSum("demandLoad")

(* two classified rooms in different categories, one of them with loads    *)
(* that needed rounding, and a third room that failed                      *)
C7_Witness ==
  /\ Succeeded
  /\ Len(geometry.rawRooms) = 3
  /\ Cardinality(LoadedRooms) = 2
  /\ Len(Breakdown) = 2
  /\ \E i \in LoadedRooms :
       /\ result[1].rooms[i].connectedLoad = Some(9413)
       /\ result[1].rooms[i].demandLoad = Some(6213)
  /\ result[1].totalConnectedLoad > 9413
  /\ result[1].totalDemandLoad > 6213

Categories == { result[1].rooms[i].customerCategory : i \in LoadedRooms }

RoomsOfCategory(c) == { i \in LoadedRooms : result[1].rooms[i].customerCategory = c }

(* the number of a DPS-01 code: C2 is 2, C10 is 10 *)
RECURSIVE DigitsValue(_, _)
DigitsValue(digits, acc) ==
  IF Len(digits) = 0 THEN acc
  ELSE DigitsValue(Tail(digits), 10 * acc + charRank(Head(digits)))

CodeNumber(code) == DigitsValue(Tail(code), 0)

OneEntryPerCategory ==
  /\ Len(Breakdown) = Cardinality(Categories)
  /\ \A c \in Categories :
       \E k \in 1..Len(Breakdown) :
         /\ Breakdown[k].category = c
         /\ Breakdown[k].roomCount = Cardinality(RoomsOfCategory(c))
  /\ BreakdownSum("roomCount") = Cardinality(LoadedRooms)

(* C8 as stated: one entry per category of the classified rooms with its   *)
(* room count, the entries ascending by the number of the code.            *)
C8_AsStated ==
  Succeeded =>
    /\ OneEntryPerCategory
    /\ \A k, m \in 1..Len(Breakdown) :
         k < m => CodeNumber(Breakdown[k].category) < CodeNumber(Breakdown[m].category)

(* C8 (amended): one entry per category of the classified rooms with its   *)
(* room count, the entries ascending by the code compared as a string,     *)
(* character by character, so that C10 stands before C2.                   *)
C8_SortedAsStrings ==
  Succeeded =>
    /\ OneEntryPerCategory
    /\ \A k, m \in 1..Len(Breakdown) :
         k < m => localeCompare(Breakdown[k].category, Breakdown[m].category) < 0
    /\ \A k, m \in 1..Len(Breakdown) :
         (Breakdown[k].category = CatC10 /\ Breakdown[m].category = CatC2) => k < m

(* rooms classified C2 first and C10 second: the entries are C10, C2 *)
C8_Witness ==
  /\ Succeeded
  /\ Len(geometry.rawRooms) = 3
  /\ LoadedRooms = RoomIndices
  /\ result[1].rooms[1].customerCategory = CatC2
  /\ result[1].rooms[2].customerCategory = CatC10
  /\ result[1].rooms[3].customerCategory = CatC2
  /\ Len(Breakdown) = 2
  /\ Breakdown[1].category = CatC10 /\ Breakdown[1].roomCount = 1
  /\ Breakdown[2].category = CatC2 /\ Breakdown[2].roomCount = 2

(* C9: effectiveDemandFactor is a finite number, and it is 0 whenever      *)
(* totalConnectedLoad is 0: no classified room, or load density 0.         *)
C9_ZeroWhenNoLoad ==
  Succeeded =>
    /\ result[1].effectiveDemandFactor.kind = "finite"
    /\ result[1].totalConnectedLoad = 0 => result[1].effectiveDemandFactor = Finite(0)

(* a classified room of load density 0 beside a room that failed *)
C9_Witness ==
  /\ Succeeded
  /\ \E i \in RoomIndices : result[1].rooms[i].loadDensityVAm2 = Some(0)
  /\ \E i \in RoomIndices : result[1].rooms[i].error # Null
  /\ result[1].totalConnectedLoad = 0
  /\ result[1].effectiveDemandFactor = Finite(0)

(* one C1 room of 300 VA at factor 0.6 and one C2 room of 500 VA at 0.8 *)
TwoCategoryExample ==
  /\ Succeeded
  /\ Len(geometry.rawRooms) = 2
  /\ result[1].rooms[1].customerCategory = CatC1
  /\ result[1].rooms[1].connectedLoad = Some(30000)
  /\ result[1].rooms[1].demandFactor = Some(60)
  /\ result[1].rooms[2].customerCategory = CatC2
  /\ result[1].rooms[2].connectedLoad = Some(50000)
  /\ result[1].rooms[2].demandFactor = Some(80)

(* C10 as stated: with a positive totalConnectedLoad effectiveDemandFactor *)
(* is the quotient totalDemandLoad / totalConnectedLoad; 0.725 for the     *)
(* example.  (factor in 0.01: factor * connected = 100 * demand)           *)
C10_AsStated ==
  (Succeeded /\ result[1].totalConnectedLoad > 0) =>
    /\ result[1].effectiveDemandFactor.kind = "finite"
    /\ result[1].effectiveDemandFactor.v * result[1].totalConnectedLoad
         = 100 * result[1].totalDemandLoad

(* C10 (amended): with a positive totalConnectedLoad effectiveDemandFactor *)
(* is the quotient totalDemandLoad / totalConnectedLoad rounded to two     *)
(* decimals, a half rounding up; the example has totals 800 and 580 and    *)
(* the factor 0.73.                                                        *)
C10_RoundedQuotient ==
  (Succeeded /\ result[1].totalConnectedLoad > 0) =>
    /\ result[1].effectiveDemandFactor.kind = "finite"
    /\ IsRounded(result[1].effectiveDemandFactor.v,
                 100 * result[1].totalDemandLoad, result[1].totalConnectedLoad)
    /\ TwoCategoryExample =>
         /\ result[1].totalConnectedLoad = 80000
         /\ result[1].totalDemandLoad = 58000
         /\ result[1].effectiveDemandFactor = Finite(73)

C10_Witness ==
  /\ TwoCategoryExample
  /\ result[1].totalConnectedLoad = 80000
  /\ result[1].totalDemandLoad = 58000
  /\ result[1].effectiveDemandFactor = Finite(73)

----------------------------------------------------------------------------
(* Properties of the run as a whole *)

(* the geometry stage has returned, and it failed or found no room *)
GeometryFatal ==
  pc # "processDxfFile" /\ (~geometry.success \/ Len(geometry.rawRooms) = 0)

RetrievalFailed == \E k \in 1..Len(warnings) : warnings[k] = WARN_RAG

AnalysisFailed == \E k \in 1..Len(warnings) : warnings[k] = WARN_AI

(* C11: the emitted result has success = false exactly when the geometry   *)
(* stage failed or returned no room; it then carries an error message and  *)
(* no room list; in every other case, whatever retrieval and               *)
(* classification did, it has success = true and a room list.              *)
C11_FailureIffGeometryFatal ==
  Emitted =>
    /\ ~result[1].success <=> GeometryFatal
    /\ ~result[1].success =>
         /\ "error" \in DOMAIN result[1]
         /\ "rooms" \notin DOMAIN result[1]
    /\ result[1].success => "rooms" \in DOMAIN result[1]

(* retrieval was rejected and the classification call threw: still success *)
C11_Witness ==
  /\ Emitted
  /\ RetrievalFailed /\ AnalysisFailed
  /\ Len(geometry.rawRooms) = 2
  /\ result[1].success
  /\ Len(result[1].rooms) = 2

(* C12: when the retrieval of a run failed, analyzeRooms is called exactly *)
(* once, with the run's room inputs and an empty context, and the run ends *)
(* with a success result.                                                  *)
C12_EmptyContextOnRetrievalFailure ==
  RetrievalFailed =>
    /\ Len(analyzeCalls) = 1
    /\ analyzeCalls[1].codeContext = <<>>
    /\ analyzeCalls[1].rooms = uniqueRoomInputs
    /\ codeContext = <<>>
    /\ pc = "closed" => (result # Null /\ result[1].success)

(* retrieval failed, the classification answered, and a room got its loads *)
C12_Witness ==
  /\ Succeeded
  /\ RetrievalFailed /\ ~AnalysisFailed
  /\ Len(analyzeCalls) = 1
  /\ analyzeCalls[1].codeContext = <<>>
  /\ \E i \in RoomIndices : result[1].rooms[i].connectedLoad # Null

(* C13: when the classification call threw or returned an empty list, the  *)
(* run emits a success result that lists every RawRoom with null loads and *)
(* an error, has hasFailedRooms = true, both totals 0 and an empty         *)
(* categoryBreakdown.                                                      *)
C13_AllRoomsFailed ==
  (Emitted /\ ~GeometryFatal /\ analysisResults = <<>>) =>
    LET r == result[1]
    IN /\ r.success
       /\ Len(r.rooms) = Len(geometry.rawRooms)
       /\ \A i \in RoomIndices :
            /\ r.rooms[i].id = geometry.rawRooms[i].id
            /\ r.rooms[i].connectedLoad = Null
            /\ r.rooms[i].demandLoad = Null
            /\ r.rooms[i].loadDensityVAm2 = Null
            /\ r.rooms[i].demandFactor = Null
            /\ r.rooms[i].error # Null
       /\ r.hasFailedRooms
       /\ r.totalConnectedLoad = 0
       /\ r.totalDemandLoad = 0
       /\ r.categoryBreakdown = <<>>

(* three rooms and a classification call that threw *)
C13_Witness ==
  /\ Emitted
  /\ AnalysisFailed
  /\ Len(geometry.rawRooms) = 3
  /\ result[1].success
  /\ result[1].hasFailedRooms
  /\ \A i \in RoomIndices : result[1].rooms[i].error = Some(ERROR_TEXT)

(* C15: the stages entered so far are an initial part of the fixed order   *)
(* geometry, aggregation, retrieval fan-out, classification, assembly,     *)
(* summary, each at most once; classification is called at most once; and  *)
(* after a fatal geometry stage the run is closed with no later stage      *)
(* entered and no classification call made.                                *)
C15_StagesInOrder ==
  /\ Len(stages) <= Len(AllStages)
  /\ stages = SubSeq(AllStages, 1, Len(stages))
  /\ Len(analyzeCalls) <= 1
  /\ Len(analyzeCalls) = 1 <=> Len(stages) >= 4
  /\ GeometryFatal =>
       /\ pc = "closed"
       /\ stages = <<"processDxfFile">>
       /\ analyzeCalls = <<>>

(* a run that went through all six stages *)
C15_Witness ==
  /\ Succeeded
  /\ stages = AllStages
  /\ Len(analyzeCalls) = 1

ProgressEvents == { k \in 1..Len(events) : events[k].event = "progress" }

ResultEvents == { k \in 1..Len(events) : events[k].event = "result" }

----------------------------------------------------------------------------
(* The retrieval module: ragCache, ragCacheSet and searchSaudiCode, called   *)
(* concurrently.  A call is suspended at one of its two awaits; a step of a  *)
(* call runs it to its next await or to its end.                             *)

SIMILARITY_THRESHOLD == 50

digitChar(d) ==
  CASE d = 0 -> "0" [] d = 1 -> "1" [] d = 2 -> "2" [] d = 3 -> "3" [] d = 4 -> "4"
    [] d = 5 -> "5" [] d = 6 -> "6" [] d = 7 -> "7" [] d = 8 -> "8" [] OTHER -> "9"

(* the decimal digits of a topK *)
RECURSIVE numberToString(_)
numberToString(n) ==
  IF n < 10 THEN <<digitChar(n)>>
  ELSE Append(numberToString(n \div 10), digitChar(n % 10))

cacheKey_queryOnly(query, topK) == query

(* `${query}::${topK}` *)
cacheKey(query, topK) == query \o <<":", ":">> \o numberToString(topK)

cacheKeys(cache) == { cache[k].key : k \in 1..Len(cache) }

(* ragCache.get(key): Null stands for undefined *)
ragCacheGet(cache, key) ==
  LET hits == { k \in 1..Len(cache) : cache[k].key = key }
  IN IF hits = {} THEN Null ELSE Some(cache[CHOOSE k \in hits : TRUE].value)

(* Map.prototype.set: an existing key keeps its place and gets the new value, *)
(* a new key goes to the end                                                  *)
mapSet(cache, key, value) ==
  IF key \in cacheKeys(cache)
  THEN [k \in 1..Len(cache) |->
          IF cache[k].key = key THEN [key |-> key, value |-> value] ELSE cache[k]]
  ELSE Append(cache, [key |-> key, value |-> value])

ragCacheSet_offByOne(cache, key, value) ==
  mapSet(IF Len(cache) > RAG_CACHE_MAX THEN Tail(cache) ELSE cache, key, value)

(* ragCacheSet: at capacity the first key of the Map is deleted, then set *)
ragCacheSet(cache, key, value) ==
  mapSet(IF Len(cache) >= RAG_CACHE_MAX THEN Tail(cache) ELSE cache, key, value)

(* the filter on the score and the map to the content of the document *)
RECURSIVE filterResults(_)
filterResults(docsWithScores) ==
  IF Len(docsWithScores) = 0 THEN <<>>
  ELSE (IF Head(docsWithScores).score >= SIMILARITY_THRESHOLD
        THEN <<Head(docsWithScores).content>> ELSE <<>>)
       \o filterResults(Tail(docsWithScores))

Q1 == <<"q", "1">>

Q2 == <<"q", "2">>

Q3 == <<"q", "3">>

Q4 == <<"q", "4">>

(* the four calls of step 2: searchSaudiCode(q1, 5), (q2, 5), (q3, 6), (q4, 6) *)
RagCalls == << <<Q1, 5>>, <<Q2, 5>>, <<Q3, 6>>, <<Q4, 6>> >>

(* what other callers of the exported searchSaudiCode ask for *)
SearchInputs == { <<Q1, 5>>, <<Q1, 8>> }

(* What the vector store may answer to similaritySearchWithScore(query,     *)
(* topK): documents about the query with their scores.  The first answer    *)
(* has a document at the threshold and one below it, the second has none    *)
(* that passes.                                                             *)
StoreDocuments(query, topK) ==
  << [content |-> <<query, topK, "x">>, score |-> 50],
     [content |-> <<query, topK, "y">>, score |-> 49] >>

StoreAnswers(query, topK) ==
  { StoreDocuments(query, topK),
    << [content |-> <<query, topK, "z">>, score |-> 40] >> }

(* searchSaudiCode up to its first await: the cache lookup *)
startCall(cache, query, topK, fan) ==
  LET cached == ragCacheGet(cache, cacheKey(query, topK))
  IN [query |-> query, topK |-> topK, fan |-> fan,
      pc |-> IF cached # Null THEN "returned" ELSE "getVectorStore",
      hit |-> cached # Null,
      answer |-> Null,
      value |-> cached]

Settled(call) == call.pc \in {"returned", "threw"}

(* Promise.all over the calls of a fan-out, and the continuation of the     *)
(* handler that awaits it: rejected as soon as one call threw, fulfilled     *)
(* when all returned; analyzeRooms is then called with the context.          *)
settleFan(fan, cs) ==
  IF fan.state # "pending" THEN fan
  ELSE IF \E k \in 1..Len(fan.members) : cs[fan.members[k]].pc = "threw"
  THEN [fan EXCEPT !.state = "rejected", !.codeContext = Some(<<>>)]
  ELSE IF \A k \in 1..Len(fan.members) : cs[fan.members[k]].pc = "returned"
  THEN [fan EXCEPT !.state = "fulfilled",
                   !.codeContext = Some(mergeContext(
                      [k \in 1..Len(fan.members) |-> cs[fan.members[k]].value[1]]))]
  ELSE fan

settleFans(fs, cs) == [f \in 1..Len(fs) |-> settleFan(fs[f], cs)]

(* step 2 of a handler run: the fan-out, up to  await Promise.all *)
StartRetrieval ==
  /\ Len(calls) + FanOutWidth <= MaxCalls
  /\ LET started == [k \in 1..FanOutWidth |->
                       startCall(ragCache, RagCalls[k][1], RagCalls[k][2], Len(fans) + 1)]
         fan == [members |-> [k \in 1..FanOutWidth |-> Len(calls) + k],
                 state |-> "pending", codeContext |-> Null]
     IN /\ calls' = calls \o started
        /\ fans' = settleFans(Append(fans, fan), calls')
  /\ UNCHANGED <<ragCache, runVars, now, served, otherVars>>

(* another caller calls searchSaudiCode(query, topK) *)
SearchCall ==
  /\ Len(calls) < MaxCalls
  /\ \E input \in SearchInputs :
       calls' = Append(calls, startCall(ragCache, input[1], input[2], 0))
  /\ UNCHANGED <<ragCache, fans, runVars, now, served, otherVars>>

(* await getVectorStore() resumes: similaritySearchWithScore is called *)
VectorStoreReady ==
  /\ \E c \in 1..Len(calls) :
       /\ calls[c].pc = "getVectorStore"
       /\ calls' = [calls EXCEPT ![c].pc = "similaritySearchWithScore"]
  /\ UNCHANGED <<ragCache, fans, runVars, now, served, otherVars>>

(* await getVectorStore() throws *)
VectorStoreFails ==
  /\ \E c \in 1..Len(calls) :
       /\ calls[c].pc = "getVectorStore"
       /\ calls' = [calls EXCEPT ![c].pc = "threw"]
  /\ fans' = settleFans(fans, calls')
  /\ UNCHANGED <<ragCache, runVars, now, served, otherVars>>

(* the search resumes with the documents: filter, ragCacheSet, return *)
SearchReturns ==
  /\ \E c \in 1..Len(calls) :
       /\ calls[c].pc = "similaritySearchWithScore"
       /\ \E docsWithScores \in StoreAnswers(calls[c].query, calls[c].topK) :
            LET results == filterResults(docsWithScores)
            IN /\ ragCache' = ragCacheSet(ragCache,
                                          cacheKey(calls[c].query, calls[c].topK), results)
               /\ calls' = [calls EXCEPT ![c].pc = "returned",
                                         ![c].answer = Some(docsWithScores),
                                         ![c].value = Some(results)]
  /\ fans' = settleFans(fans, calls')
  /\ UNCHANGED <<runVars, now, served, otherVars>>

(* the search throws: nothing is stored *)
SearchFails ==
  /\ \E c \in 1..Len(calls) :
       /\ calls[c].pc = "similaritySearchWithScore"
       /\ calls' = [calls EXCEPT ![c].pc = "threw"]
  /\ fans' = settleFans(fans, calls')
  /\ UNCHANGED <<ragCache, runVars, now, served, otherVars>>

(* the server process after start-up: no request in progress, an empty cache *)
InitServer ==
  /\ pc = "idle"
  /\ geometry = NoGeometry
  /\ resolvedLabels = <<>>
  /\ uniqueRoomInputs = <<>>
  /\ analysisResults = <<>>
  /\ warnings = <<>>
  /\ result = Null
  /\ events = <<>>
  /\ stages = <<>>
  /\ codeContext = <<>>
  /\ analyzeCalls = <<>>
  /\ now = 0
  /\ ragCache = <<>>
  /\ calls = <<>>
  /\ fans = <<>>
  /\ served = <<>>
  /\ otherInit

NextRetrieval ==
  \/ StartRetrieval
  \/ SearchCall
  \/ VectorStoreReady
  \/ VectorStoreFails
  \/ SearchReturns
  \/ SearchFails

SpecRetrieval == InitServer /\ [][NextRetrieval]_vars

----------------------------------------------------------------------------
(* Properties of the retrieval module *)

CallIds == 1..Len(calls)

(* analyzeRooms of the run of fan-out f has been called *)
ClassificationStarted(f) == fans[f].codeContext # Null

(* C14 as stated: once the classification call of a run has started, every *)
(* retrieval call of the run has settled: none is still in flight, so none *)
(* can write to the cache any more.                                        *)
C14_AsStated ==
  \A f \in 1..Len(fans) :
    ClassificationStarted(f) =>
      \A k \in 1..Len(fans[f].members) : Settled(calls[fans[f].members[k]])

SameKeyCalls(c, d) == calls[c].query = calls[d].query /\ calls[c].topK = calls[d].topK

(* the call went to the vector store and came back with an answer *)
Searched(c) == calls[c].pc = "returned" /\ ~calls[c].hit

(* C17: under every interleaving of searchSaudiCode calls the cache holds  *)
(* at most RAG_CACHE_MAX entries and no two entries with the same key.     *)
C17_BoundedNoDuplicates ==
  /\ Len(ragCache) <= RAG_CACHE_MAX
  /\ \A i, j \in 1..Len(ragCache) : ragCache[i].key = ragCache[j].key => i = j

(* a full cache after two calls missed the same key at the same time and   *)
(* both stored it, and after an entry was evicted                          *)
C17_Witness ==
  /\ Len(ragCache) = RAG_CACHE_MAX
  /\ \E c, d \in CallIds : c # d /\ SameKeyCalls(c, d) /\ Searched(c) /\ Searched(d)
  /\ \E c \in CallIds :
       Searched(c) /\ cacheKey(calls[c].query, calls[c].topK) \notin cacheKeys(ragCache)

(* the last entry of the cache after the step *)
Stored == ragCache'[Len(ragCache')]

(* C18 as stated: a step changes the cache only by replacing the value of  *)
(* a present key in place, by adding a new key at the end while there is   *)
(* room, or, when the cache is full and the key is new, by removing the    *)
(* earliest entry and adding the key at the end.                           *)
C18_AsStated ==
  [][ \/ ragCache' = ragCache
      \/ /\ Len(ragCache') = Len(ragCache)
         /\ \A i \in 1..Len(ragCache) : ragCache'[i].key = ragCache[i].key
      \/ /\ Len(ragCache) < RAG_CACHE_MAX
         /\ Len(ragCache') = Len(ragCache) + 1
         /\ Stored.key \notin cacheKeys(ragCache)
         /\ ragCache' = Append(ragCache, Stored)
      \/ /\ Len(ragCache) = RAG_CACHE_MAX
         /\ Len(ragCache') = RAG_CACHE_MAX
         /\ Stored.key \notin cacheKeys(ragCache)
         /\ ragCache' = Append(Tail(ragCache), Stored)
    ]_vars

(* the contents of the documents whose score reaches the threshold *)
Passing(docsWithScores) ==
  LET kept == SelectSeq(docsWithScores, LAMBDA d : d.score >= SIMILARITY_THRESHOLD)
  IN [k \in 1..Len(kept) |-> kept[k].content]

(* C19: a call that returns either searched the store for its own query    *)
(* and topK and returns the documents of the answer that reach the         *)
(* threshold, or made no search and returns what an earlier search for the *)
(* same query and topK returned; every cache entry is the result of a      *)
(* search that succeeded for that key, so a search that fails stores       *)
(* nothing and a later call with its key searches again.                   *)
C19_FreshOrStoredForSameKey ==
  /\ \A c \in CallIds :
       /\ calls[c].hit => calls[c].pc = "returned" /\ calls[c].answer = Null
       /\ calls[c].pc = "threw" => calls[c].answer = Null /\ calls[c].value = Null
       /\ Searched(c) =>
            /\ calls[c].answer # Null
            /\ \E k \in 1..Len(calls[c].answer[1]) :
                 calls[c].answer[1][k].content[1] = calls[c].query
            /\ \A k \in 1..Len(calls[c].answer[1]) :
                 /\ calls[c].answer[1][k].content[1] = calls[c].query
                 /\ calls[c].answer[1][k].content[2] = calls[c].topK
            /\ calls[c].value = Some(Passing(calls[c].answer[1]))
       /\ (calls[c].pc = "returned" /\ calls[c].hit) =>
            \E e \in 1..(c - 1) :
              /\ Searched(e) /\ SameKeyCalls(e, c)
              /\ calls[c].value = Some(Passing(calls[e].answer[1]))
  /\ \A i \in 1..Len(ragCache) :
       \E e \in CallIds :
         /\ Searched(e)
         /\ ragCache[i].key = calls[e].query \o <<":", ":">> \o numberToString(calls[e].topK)
         /\ ragCache[i].value = Passing(calls[e].answer[1])

(* a search that failed, a second call with the same key that searched     *)
(* again, and a third that was served its result from the cache            *)
C19_Witness ==
  \E c, d, e \in CallIds :
    /\ c < d /\ d < e
    /\ SameKeyCalls(c, d) /\ SameKeyCalls(d, e)
    /\ calls[c].pc = "threw"
    /\ Searched(d)
    /\ calls[e].hit
    /\ calls[e].value = calls[d].value
    /\ calls[e].value # Some(<<>>)

----------------------------------------------------------------------------
(* Successive uploads.  The server serves one request after the other; a     *)
(* run of the handler is one step, from progress(0) to controller.close(),   *)
(* and the cache and the clock are what outlives it.  The retrieval calls    *)
(* of a run look the cache up when they are issued and complete in the       *)
(* order they were issued in.                                                *)

(* the files uploaded, each as what processDxfFile returns for its content *)
UploadedFiles ==
  { [success |-> TRUE, rawRooms |-> <<>>],
    [success |-> TRUE,
     rawRooms |-> << [id |-> 1, name |-> <<"A">>, area |-> 2000],
                     [id |-> 2, name |-> <<"\"">>, area |-> 750] >>] }

(* the vector store during a run: it answers every search, it fails the     *)
(* search of the first call, or it fails every search                       *)
StoreBehaviours == {"up", "firstFails", "down"}

StoreResponds(store, k) == store = "up" \/ (store = "firstFails" /\ k # 1)

(* what analyzeRooms does in a run: it throws (Null) or returns a list *)
ClassificationOutcomes ==
  { Null, Some(<<RoomAnalysis(<<"A">>, "Bedroom", CatC1, 4000, 60)>>) }

(* the calls of a fan-out run to their end, one after the other *)
RECURSIVE completeCalls(_, _, _, _)
completeCalls(cache, started, store, k) ==
  IF k > Len(started) THEN [cache |-> cache, calls |-> started]
  ELSE IF started[k].hit THEN completeCalls(cache, started, store, k + 1)
  ELSE IF StoreResponds(store, k)
  THEN LET docsWithScores == StoreDocuments(started[k].query, started[k].topK)
           results == filterResults(docsWithScores)
       IN completeCalls(
            ragCacheSet(cache, cacheKey(started[k].query, started[k].topK), results),
            [started EXCEPT ![k].pc = "returned",
                            ![k].answer = Some(docsWithScores),
                            ![k].value = Some(results)],
            store, k + 1)
  ELSE completeCalls(cache, [started EXCEPT ![k].pc = "threw"], store, k + 1)

(* step 2 of a run: the fan-out over the cache, and Promise.all *)
runRetrieval(cache, store) ==
  LET started == [k \in 1..FanOutWidth |->
                    startCall(cache, RagCalls[k][1], RagCalls[k][2], 1)]
      done == completeCalls(cache, started, store, 1)
      fan == settleFan([members |-> [k \in 1..FanOutWidth |-> k],
                        state |-> "pending", codeContext |-> Null], done.calls)
  IN [cache |-> done.cache,
      rejected |-> fan.state = "rejected",
      codeContext |-> fan.codeContext[1]]

analyzeRoomsResult_needsContext(outcome, context) ==
  IF outcome = Null \/ context = <<>> THEN <<>> ELSE outcome[1]

(* step 3 of a run: analysisResults after  await analyzeRooms(..., codeContext) *)
analyzeRoomsResult(outcome, context) ==
  IF outcome = Null THEN <<>> ELSE outcome[1]

(* the whole run on a file: the cache it leaves and the result it emits *)
runUpload(cache, file, store, outcome, time) ==
  IF ~file.success
  THEN [cache |-> cache,
        result |-> finish(stamped(failure("DXF parsing failed"), time), <<>>)]
  ELSE IF Len(file.rawRooms) = 0
  THEN [cache |-> cache,
        result |-> finish(stamped(failure("No rooms found in this DXF file"), time), <<>>)]
  ELSE
    LET retrieval == runRetrieval(cache, store)
        ragWarnings == IF retrieval.rejected THEN <<WARN_RAG>> ELSE <<>>
        list == analyzeRoomsResult(outcome, retrieval.codeContext)
        allWarnings == IF outcome = Null THEN Append(ragWarnings, WARN_AI)
                       ELSE ragWarnings
    IN [cache |-> retrieval.cache,
        result |-> finish(stamped(successResult(file, list, resolveLabels(file.rawRooms)),
                                  time),
                          allWarnings)]

Upload ==
  /\ Len(served) < MaxUploads
  /\ \E file \in UploadedFiles, store \in StoreBehaviours,
        outcome \in ClassificationOutcomes :
       LET run == runUpload(ragCache, file, store, outcome, now)
       IN /\ ragCache' = run.cache
          /\ served' = Append(served, [file |-> file, store |-> store,
                                       outcome |-> outcome,
                                       cached |-> cacheKeys(ragCache),
                                       result |-> run.result])
  /\ now' = now + 1
  /\ UNCHANGED <<runVars, calls, fans, otherVars>>

NextServer == Upload

SpecServer == InitServer /\ [][NextServer]_vars

----------------------------------------------------------------------------
(* Properties of successive uploads *)

Uploads == 1..Len(served)

(* the same file content, the same behaviour of the vector store and the   *)
(* same classification response                                            *)
SameInputs(i, j) ==
  /\ served[i].file = served[j].file
  /\ served[i].store = served[j].store
  /\ served[i].outcome = served[j].outcome

Without(r, fields) == [f \in DOMAIN r \ fields |-> r[f]]

----------------------------------------------------------------------------
(* interpolateLoadTable.  Table areas are in 0.01 m2 and kVA values in     *)
(* 0.01 kVA.  A call either returns a value or throws; a returned number   *)
(* that the function does not round is kept as the exact quotient          *)
(* num / den, in 0.01 kVA.                                                 *)

Returns(v) == [threw |-> FALSE, value |-> v]

Throws(e) == [threw |-> TRUE, error |-> e]

Ratio(num, den) == [num |-> num, den |-> den]

Row(areaSqM, kva) == [areaSqM |-> areaSqM, kva |-> kva]

(* [...table].sort((a, b) => a.areaSqM - b.areaSqM): the sort is stable *)
RECURSIVE insertRow(_, _)
insertRow(sorted, row) ==
  IF Len(sorted) = 0 \/ sorted[Len(sorted)].areaSqM <= row.areaSqM
  THEN Append(sorted, row)
  ELSE Append(insertRow(SubSeq(sorted, 1, Len(sorted) - 1), row), sorted[Len(sorted)])

RECURSIVE sortRowsFrom(_, _, _)
sortRowsFrom(table, i, sorted) ==
  IF i > Len(table) THEN sorted
  ELSE sortRowsFrom(table, i + 1, insertRow(sorted, table[i]))

sortRows(table) == sortRowsFrom(table, 1, <<>>)

(* sorted.findIndex((row) => row.areaSqM >= areaSqM), counted from 0 *)
findIndex(sorted, areaSqM) ==
  LET hits == { k \in 1..Len(sorted) : sorted[k].areaSqM >= areaSqM }
  IN IF hits = {} THEN -1
     ELSE (CHOOSE k \in hits : \A m \in hits : k <= m) - 1

(* lines 27-30: the bracket [sorted[idx - 1], sorted[idx]], idx from 0.    *)
(* sorted[-1] is undefined, and destructuring undefined throws a TypeError. *)
interpolateBracket(sorted, idx, areaSqM) ==
  IF idx - 1 < 0 THEN Throws("TypeError")
  ELSE Returns(Some(Ratio(
         round2(sorted[idx].kva * (sorted[idx + 1].areaSqM - sorted[idx].areaSqM)
                  + (areaSqM - sorted[idx].areaSqM)
                    * (sorted[idx + 1].kva - sorted[idx].kva),
                100 * (sorted[idx + 1].areaSqM - sorted[idx].areaSqM)), 1)))

(* lines 19-30, on the sorted copy; sorted[0] of an empty array is          *)
(* undefined, and reading its areaSqM throws a TypeError.                   *)
interpolateSorted(sorted, areaSqM) ==
  IF Len(sorted) = 0 THEN Throws("TypeError")
  ELSE IF areaSqM < sorted[1].areaSqM
  THEN Returns(Some(Ratio(areaSqM * sorted[1].kva, sorted[1].areaSqM)))
  ELSE IF areaSqM > sorted[Len(sorted)].areaSqM THEN Returns(Null)
  ELSE interpolateBracket(sorted, findIndex(sorted, areaSqM), areaSqM)

interpolateLoadTable(table, areaSqM) ==
  IF areaSqM <= 0 THEN Returns(Some(Ratio(0, 1)))
  ELSE interpolateSorted(sortRows(table), areaSqM)

----------------------------------------------------------------------------
(* POST of server/services/dxf-load.post.ts: the two-phase handler.  The   *)
(* request has passed the checks on the form and the file; the retrieved   *)
(* contexts reach only the two AI calls, whose answers are inputs here.    *)

Classification(label, type, category) ==
  [roomLabel |-> label, roomType |-> type, customerCategory |-> category]

CategoryValues(category, density, factor, table, extended) ==
  [customerCategory |-> category, loadDensityVAm2 |-> density,
   demandFactor |-> factor, c1c2KvaTable |-> table,
   c1c2ExtendedDensityVAm2 |-> extended]

(* what processDxfFile may resolve to: a failure or a list of rooms *)
ServiceGeometries ==
  { NoGeometry } \cup { [success |-> TRUE, rawRooms |-> l] : l \in RawRoomLists }

(* what classifyRooms may resolve to; Null stands for a rejection *)
ServiceClassifications ==
  { Null,
    Some(<<>>),
    Some(<<Classification(<<"A">>, "Bedroom", CatC1)>>),
    Some(<<Classification(<<"A">>, "Workshop", CatC10)>>),
    Some(<<Classification(<<"A">>, "Bedroom", CatC1),
           Classification(<<"B">>, "Shop", CatC2)>>) }

(* the area-to-kVA tables the value extraction may return for C1 *)
KvaTables ==
  { << Row(4000, 90), Row(2000, 50) >>,
    << Row(2000, 50) >> }

(* the values extractCategoryValues may return for one category *)
ValuesFor(category) ==
  IF category = CatC1
  THEN { CategoryValues(CatC1, 0, 60, Some(t), Some(5000)) : t \in KvaTables }
       \cup { CategoryValues(CatC1, 4000, 60, Null, Null) }
  ELSE IF category = CatC2
  THEN { CategoryValues(CatC2, 2500, 80, Null, Null) }
  ELSE { CategoryValues(category, 0, 66, Null, Null),
         CategoryValues(category, 1255, 66, Null, Null) }

(* what extractCategoryValues may resolve to for these categories: a       *)
(* rejection, nothing, or one record for every category asked for          *)
ExtractionOutcomes(categories) ==
  { Null, Some(<<>>) } \cup
  { Some(vs) : vs \in { q \in [1..Len(categories) -> UNION { ValuesFor(c) : c \in
                                   { categories[k] : k \in 1..Len(categories) } }] :
                          \A k \in 1..Len(categories) :
                            q[k] \in ValuesFor(categories[k]) } }

errorResponse(message, status) ==
  [status |-> status, body |-> failure(message)]

(* lines 91-95: a ditto room's name in geometry.rawRooms is replaced by its *)
(* resolved label                                                           *)
overwriteDittoNames(rawRooms, resolved) ==
  [i \in 1..Len(rawRooms) |->
     IF isDitto(rawRooms[i].name)
     THEN [rawRooms[i] EXCEPT !.name = resolved[i]]
     ELSE rawRooms[i]]

(* [...new Set(aiClassifications.map((c) => c.customerCategory))] *)
uniqueCategories(classes) ==
  keepFirst([k \in 1..Len(classes) |-> classes[k].customerCategory], {})

(* /^C(1[89]|2\d)$/ *)
DECLARED_RE_test(category) ==
  /\ Len(category) = 3
  /\ category[1] = "C"
  /\ \/ category[2] = "1" /\ category[3] \in {"8", "9"}
     \/ category[2] = "2" /\ category[3] \in
          {"0", "1", "2", "3", "4", "5", "6", "7", "8", "9"}

RECURSIVE retrievalFailures(_)
retrievalFailures(values) ==
  IF Len(values) = 0 THEN <<>>
  ELSE
    LET cv == Head(values)
    IN (IF /\ cv.loadDensityVAm2 = 0
           /\ ~DECLARED_RE_test(cv.customerCategory)
           /\ cv.customerCategory # CatC1
           /\ cv.customerCategory # CatC2
        THEN <<cv.customerCategory>> ELSE <<>>) \o retrievalFailures(Tail(values))

(* the loop over retryValues: a retry with a positive density replaces the *)
(* density of the first record of its category                             *)
RECURSIVE mergeRetries(_, _)
mergeRetries(values, retryValues) ==
  IF Len(retryValues) = 0 THEN values
  ELSE
    LET retry == Head(retryValues)
        hits == { k \in 1..Len(values) :
                    values[k].customerCategory = retry.customerCategory }
    IN IF retry.loadDensityVAm2 > 0 /\ hits # {}
       THEN mergeRetries(
              [values EXCEPT ![CHOOSE k \in hits : \A m \in hits : k <= m]
                               .loadDensityVAm2 = retry.loadDensityVAm2],
              Tail(retryValues))
       ELSE mergeRetries(values, Tail(retryValues))

(* new Map(entries).get(key): the last entry with the key wins *)
classMapGet(classes, key) ==
  LET hits == { k \in 1..Len(classes) : normalizeRoomKey(classes[k].roomLabel) = key }
  IN IF hits = {} THEN Null
     ELSE Some(classes[CHOOSE k \in hits : \A m \in hits : m <= k])

valueMapGet(values, category) ==
  LET hits == { k \in 1..Len(values) : values[k].customerCategory = category }
  IN IF hits = {} THEN Null
     ELSE Some(values[CHOOSE k \in hits : \A m \in hits : m <= k])

(* categoryAreaMap: every classification adds the total area of its room   *)
(* type to its category; Null when no classification did                   *)
RECURSIVE categoryAreaFrom(_, _, _, _)
categoryAreaFrom(classes, aggs, category, k) ==
  IF k > Len(classes) THEN Null
  ELSE
    LET rest == categoryAreaFrom(classes, aggs, category, k + 1)
        a == aggIndex(aggs, normalizeRoomKey(classes[k].roomLabel))
    IN IF classes[k].customerCategory = category /\ a > 0
       THEN Some(aggs[a].totalAreaForType + (IF rest = Null THEN 0 ELSE rest[1]))
       ELSE rest

categoryAreaMapGet(classes, aggs, category) ==
  categoryAreaFrom(classes, aggs, category, 1)

(* lines 324-333: the density that the interpolated kVA gives *)
densityOfKva(kva, values, totalAreaForType) ==
  IF kva.threw THEN kva
  ELSE IF kva.value = Null
  THEN Returns(IF values.c1c2ExtendedDensityVAm2 = Null THEN 0
               ELSE values.c1c2ExtendedDensityVAm2[1])
  ELSE Returns(IF totalAreaForType > 0
               THEN round2(1000 * kva.value[1].num,
                           kva.value[1].den * totalAreaForType)
               ELSE 0)

(* lines 317-336, values being valueMap.get(category) *)
densityOfValues(category, totalAreaForType, v) ==
  IF v = Null THEN Returns(0)
  ELSE IF /\ category \in {CatC1, CatC2}
          /\ v[1].c1c2KvaTable # Null
          /\ Len(v[1].c1c2KvaTable[1]) > 0
  THEN densityOfKva(interpolateLoadTable(v[1].c1c2KvaTable[1], totalAreaForType),
                    v[1], totalAreaForType)
  ELSE Returns(v[1].loadDensityVAm2)

getDensityForRoom(category, totalAreaForType, values) ==
  densityOfValues(category, totalAreaForType, valueMapGet(values, category))

(* line 245: categoryAreaMap.get(cls.customerCategory) ?? raw.area *)
totalAreaForTypeOf(total, raw) == IF total = Null THEN raw.area ELSE total[1]

(* lines 245-283: the room of a classified raw room *)
classifiedRoom(raw, cls, density, found) ==
  IF density.threw THEN density
  ELSE Returns(loadedRoom(raw,
         RoomAnalysis(cls.roomLabel, cls.roomType, cls.customerCategory,
                      density.value,
                      IF found = Null THEN 100 ELSE found[1].demandFactor)))

roomOfClass(raw, cls, total, values) ==
  IF cls = Null THEN Returns(failedRoom(raw))
  ELSE classifiedRoom(raw, cls[1],
         getDensityForRoom(cls[1].customerCategory, totalAreaForTypeOf(total, raw),
                           values),
         valueMapGet(values, cls[1].customerCategory))

totalOfClass(classes, aggs, cls) ==
  IF cls = Null THEN Null
  ELSE categoryAreaMapGet(classes, aggs, cls[1].customerCategory)

(* the callback of geometry.rawRooms.map for room i (step 10) *)
serviceRoomOf(rawRooms, resolved, classes, values, i, cls) ==
  roomOfClass(rawRooms[i], cls,
              totalOfClass(classes, aggregateLoop(rawRooms, resolved, 1, <<>>), cls),
              values)

serviceRoom(rawRooms, resolved, classes, values, i) ==
  serviceRoomOf(rawRooms, resolved, classes, values, i,
                classMapGet(classes, normalizeRoomKey(resolved[i])))

(* roomLoadInputs.push(...) happens for the classified rooms, in room order *)
RECURSIVE serviceLoadInputs(_, _)
serviceLoadInputs(rooms, i) ==
  IF i > Len(rooms) THEN <<>>
  ELSE
    LET room == rooms[i]
        rest == serviceLoadInputs(rooms, i + 1)
    IN IF room.error # Null THEN rest
       ELSE <<[connectedLoad |-> room.connectedLoad[1],
               demandFactor |-> room.demandFactor[1],
               coincidentFactor |-> 100,
               customerCategory |-> room.customerCategory,
               roomType |-> room.type,
               loadDensityVAm2 |-> room.loadDensityVAm2[1]]>> \o rest

(* lines 290-303: the result literal *)
successBody(rooms, summary, time) ==
  stamped([success |-> TRUE,
           rooms |-> rooms,
           totalConnectedLoad |-> summary.totalConnectedLoad,
           totalDemandLoad |-> summary.totalDemandLoad,
           totalDemandLoadKVA |-> summary.totalDemandLoadKVA,
           effectiveDemandFactor |-> summary.effectiveDemandFactor,
           coincidentFactor |-> 100,
           categoryBreakdown |-> summary.categoryBreakdown,
           totalRooms |-> Len(rooms),
           hasFailedRooms |-> \E i \in 1..Len(rooms) : rooms[i].error # Null],
          time)

responseOfRooms(rooms, time) ==
  [status |-> 200,
   body |-> successBody(rooms, computeBuildingSummary(serviceLoadInputs(rooms, 1)),
                        time)]

(* the first callback that throws ends rooms.map and POST *)
responseOfOutcomes(outcomes, thrown, time) ==
  IF thrown # {}
  THEN outcomes[CHOOSE i \in thrown : \A j \in thrown : i <= j]
  ELSE Returns(responseOfRooms([i \in 1..Len(outcomes) |-> outcomes[i].value], time))

responseOf(outcomes, time) ==
  responseOfOutcomes(outcomes, { i \in 1..Len(outcomes) : outcomes[i].threw }, time)

(* steps 10 and 11: the response, or the exception that leaves POST *)
serviceResponse(rawRooms, resolved, classes, values, time) ==
  responseOf([i \in 1..Len(rawRooms) |->
                serviceRoom(rawRooms, resolved, classes, values, i)], time)

(* POST returns the response, or rejects with what step 10 threw *)
respond(classes, values) ==
  LET r == serviceResponse(geometry.rawRooms, resolvedLabels, classes, values, now)
  IN IF r.threw
     THEN /\ pc' = "rejected"
          /\ result' = Null
     ELSE /\ pc' = "done"
          /\ result' = Some(r.value)

unusedByService ==
  <<analysisResults, warnings, events, stages, codeContext, analyzeCalls,
    loaderVars, served, storeVars, dxfVars>>

InitService ==
  /\ pc = "processDxfFile"
  /\ geometry = NoGeometry
  /\ resolvedLabels = <<>>
  /\ uniqueRoomInputs = <<>>
  /\ analysisResults = <<>>
  /\ warnings = <<>>
  /\ result = Null
  /\ events = <<>>
  /\ stages = <<>>
  /\ codeContext = <<>>
  /\ analyzeCalls = <<>>
  /\ now = 0
  /\ ragCache = <<>>
  /\ calls = <<>>
  /\ fans = <<>>
  /\ served = <<>>
  /\ otherInit

(* await processDxfFile: the two 422 responses, or the ditto resolution,    *)
(* the overwrite of the names, the aggregation and the eight searches       *)
ServiceGeometryReturns ==
  /\ pc = "processDxfFile"
  /\ \E geo \in ServiceGeometries :
       IF ~geo.success
       THEN /\ result' = Some(stamped(errorResponse("DXF parsing failed", 422), now))
            /\ pc' = "done"
            /\ geometry' = geo
            /\ UNCHANGED <<resolvedLabels, uniqueRoomInputs, dxfLabels>>
       ELSE IF Len(geo.rawRooms) = 0
       THEN /\ result' = Some(stamped(errorResponse("No rooms found in this DXF file",
                                                    422), now))
            /\ pc' = "done"
            /\ geometry' = geo
            /\ UNCHANGED <<resolvedLabels, uniqueRoomInputs, dxfLabels>>
       ELSE LET resolved == resolveLabels(geo.rawRooms)
            IN /\ dxfLabels' = [i \in 1..Len(geo.rawRooms) |-> geo.rawRooms[i].name]
               /\ resolvedLabels' = resolved
               /\ geometry' = [geo EXCEPT
                                 !.rawRooms = overwriteDittoNames(geo.rawRooms, resolved)]
               /\ uniqueRoomInputs' =
                    toUniqueRoomInputs(aggregateLoop(geo.rawRooms, resolved, 1, <<>>))
               /\ pc' = "searchSaudiCode"
               /\ UNCHANGED result
  /\ now' = now + 1
  /\ UNCHANGED <<aiClassifications, aiCategoryValues, unusedByService>>

(* await Promise.all of the searches: fulfilled or rejected, classifyRooms  *)
(* is called next                                                           *)
ServiceRetrievalSettles ==
  /\ pc = "searchSaudiCode"
  /\ pc' = "classifyRooms"
  /\ now' = now + 1
  /\ UNCHANGED <<geometry, resolvedLabels, uniqueRoomInputs, result, serviceVars,
                 unusedByService>>

(* await classifyRooms (phase 1); phase 2 is skipped without categories *)
ServiceClassified ==
  /\ pc = "classifyRooms"
  /\ \E outcome \in ServiceClassifications :
       LET classes == IF outcome = Null THEN <<>> ELSE outcome[1]
       IN /\ aiClassifications' = classes
          /\ IF Len(uniqueCategories(classes)) > 0
             THEN /\ pc' = "extractCategoryValues"
                  /\ UNCHANGED result
             ELSE respond(classes, <<>>)
  /\ now' = now + 1
  /\ UNCHANGED <<geometry, resolvedLabels, uniqueRoomInputs, dxfLabels,
                 aiCategoryValues, unusedByService>>

(* await extractCategoryValues (phase 2) *)
ServiceValuesExtracted ==
  /\ pc = "extractCategoryValues"
  /\ \E outcome \in ExtractionOutcomes(uniqueCategories(aiClassifications)) :
       LET values == IF outcome = Null THEN <<>> ELSE outcome[1]
       IN /\ aiCategoryValues' = values
          /\ IF Len(retrievalFailures(values)) > 0
             THEN /\ pc' = "retrySearch"
                  /\ UNCHANGED result
             ELSE respond(aiClassifications, values)
  /\ now' = now + 1
  /\ UNCHANGED <<geometry, resolvedLabels, uniqueRoomInputs, dxfLabels,
                 aiClassifications, unusedByService>>

(* await searchSaudiCode(retryQuery, 8) returned *)
ServiceRetrySearchReturns ==
  /\ pc = "retrySearch"
  /\ pc' = "retryExtract"
  /\ now' = now + 1
  /\ UNCHANGED <<geometry, resolvedLabels, uniqueRoomInputs, result, serviceVars,
                 unusedByService>>

(* await searchSaudiCode(retryQuery, 8) threw: the catch logs it *)
ServiceRetrySearchFails ==
  /\ pc = "retrySearch"
  /\ respond(aiClassifications, aiCategoryValues)
  /\ now' = now + 1
  /\ UNCHANGED <<geometry, resolvedLabels, uniqueRoomInputs, serviceVars,
                 unusedByService>>

(* await extractCategoryValues of the retry: its values are merged in *)
ServiceRetryExtracted ==
  /\ pc = "retryExtract"
  /\ \E outcome \in ExtractionOutcomes(retrievalFailures(aiCategoryValues)) :
       LET values == IF outcome = Null THEN aiCategoryValues
                     ELSE mergeRetries(aiCategoryValues, outcome[1])
       IN /\ aiCategoryValues' = values
          /\ respond(aiClassifications, values)
  /\ now' = now + 1
  /\ UNCHANGED <<geometry, resolvedLabels, uniqueRoomInputs, dxfLabels,
                 aiClassifications, unusedByService>>

NextService ==
  \/ ServiceGeometryReturns
  \/ ServiceRetrievalSettles
  \/ ServiceClassified
  \/ ServiceValuesExtracted
  \/ ServiceRetrySearchReturns
  \/ ServiceRetrySearchFails
  \/ ServiceRetryExtracted

SpecService == InitService /\ [][NextService]_vars

----------------------------------------------------------------------------
(* Properties of the two-phase handler *)

Responded == pc = "done" /\ result # Null /\ result[1].status = 200

DittoRooms == { i \in 1..Len(dxfLabels) : isDitto(dxfLabels[i]) }

ClassOfRoom(i) == classMapGet(aiClassifications, normalizeRoomKey(resolvedLabels[i]))

(* C21: a room whose DXF label is a ditto mark is emitted under the        *)
(* original mark; its type, category and loads are those of the            *)
(* classification of its resolved label, applied to its own area; and the  *)
(* room names held in the geometry result are never overwritten by the     *)
(* ditto resolution.                                                       *)
C21_AsStated ==
  Responded =>
    /\ \A i \in 1..Len(dxfLabels) : geometry.rawRooms[i].name = dxfLabels[i]
    /\ \A i \in DittoRooms :
         ClassOfRoom(i) # Null =>
           /\ result[1].body.rooms[i].name = dxfLabels[i]
           /\ result[1].body.rooms[i].type = ClassOfRoom(i)[1].roomType
           /\ result[1].body.rooms[i].customerCategory =
                ClassOfRoom(i)[1].customerCategory
           /\ result[1].body.rooms[i].area = geometry.rawRooms[i].area
           /\ result[1].body.rooms[i].connectedLoad =
                Some(round2(result[1].body.rooms[i].loadDensityVAm2[1]
                              * geometry.rawRooms[i].area, 10000))

(* the interpolateLoadTable calls of step 10: one for every classified     *)
(* room of category C1 or C2 whose values carry a non-empty table          *)
TableOfRoom(i) ==
  LET v == IF ClassOfRoom(i) = Null THEN Null
           ELSE valueMapGet(aiCategoryValues, ClassOfRoom(i)[1].customerCategory)
  IN IF v = Null THEN Null
     ELSE IF ClassOfRoom(i)[1].customerCategory \in {CatC1, CatC2}
     THEN v[1].c1c2KvaTable
     ELSE Null

AreaOfRoom(i) ==
  totalAreaForTypeOf(
    totalOfClass(aiClassifications,
                 aggregateLoop(geometry.rawRooms, resolvedLabels, 1, <<>>),
                 ClassOfRoom(i)),
    geometry.rawRooms[i])

InterpolatedRooms ==
  { i \in 1..Len(geometry.rawRooms) :
      TableOfRoom(i) # Null /\ Len(TableOfRoom(i)[1]) > 0 }

LargestArea(table) ==
  CHOOSE a \in { table[k].areaSqM : k \in 1..Len(table) } :
    \A k \in 1..Len(table) : table[k].areaSqM <= a

(* C28: for a non-empty table and 0 < area <= the table's largest area,    *)
(* an area equal to a row and a one-row table included,                    *)
(* interpolateLoadTable returns a number and does not throw; it returns    *)
(* null only when the area exceeds the largest area, and 0 when the area   *)
(* is <= 0.                                                                *)
C28_AsStated ==
  pc \in {"done", "rejected"} =>
    \A i \in InterpolatedRooms :
      LET table == TableOfRoom(i)[1]
          areaSqM == AreaOfRoom(i)
          r == interpolateLoadTable(table, areaSqM)
      IN /\ areaSqM <= 0 => r = Returns(Some(Ratio(0, 1)))
         /\ (0 < areaSqM /\ areaSqM <= LargestArea(table)) =>
              ~r.threw /\ r.value # Null
         /\ (~r.threw /\ r.value = Null) => areaSqM > LargestArea(table)

----------------------------------------------------------------------------
(* Bounds of the loads, of one run of the pipeline route *)

SchemaHolds ==
  \A k \in 1..Len(analysisResults) :
    /\ analysisResults[k].loadDensityVAm2 >= 0
    /\ analysisResults[k].demandFactor >= 0
    /\ analysisResults[k].demandFactor <= 100

(* C29: when every classification has loadDensityVAm2 >= 0 and             *)
(* 0 <= demandFactor <= 1 and the coincident factor is 1.0, every          *)
(* classified room has 0 <= demandLoad <= connectedLoad, every category    *)
(* aggregate and the building totals have 0 <= demand <= connected, and    *)
(* 0 <= effectiveDemandFactor <= 1.                                        *)
C29_DemandWithinConnected ==
  (Succeeded /\ SchemaHolds /\ result[1].coincidentFactor = 100) =>
    /\ \A i \in LoadedRooms :
         /\ 0 <= result[1].rooms[i].demandLoad[1]
         /\ result[1].rooms[i].demandLoad[1] <= result[1].rooms[i].connectedLoad[1]
    /\ \A k \in 1..Len(Breakdown) :
         /\ 0 <= Breakdown[k].demandLoad
         /\ Breakdown[k].demandLoad <= Breakdown[k].connectedLoad
    /\ 0 <= result[1].totalDemandLoad
    /\ result[1].totalDemandLoad <= result[1].totalConnectedLoad
    /\ result[1].effectiveDemandFactor.kind = "finite"
    /\ 0 <= result[1].effectiveDemandFactor.v
    /\ result[1].effectiveDemandFactor.v <= 100

(* two classified rooms of two categories, one with a demand load strictly *)
(* below its connected load and one with a demand factor of 1              *)
C29_Witness ==
  /\ Succeeded
  /\ SchemaHolds
  /\ Len(Breakdown) = 2
  /\ \E i \in LoadedRooms :
       /\ 0 < result[1].rooms[i].demandLoad[1]
       /\ result[1].rooms[i].demandLoad[1] < result[1].rooms[i].connectedLoad[1]
  /\ \E i \in LoadedRooms : result[1].rooms[i].demandFactor = Some(100)
  /\ 0 < result[1].effectiveDemandFactor.v
  /\ result[1].effectiveDemandFactor.v < 100

----------------------------------------------------------------------------
(* getVectorStore and resetVectorStore.  An initialization is the promise  *)
(* chain  Promise.resolve().then(create).catch(reset and rethrow) ; its    *)
(* two callbacks are promise jobs, run in queue order between the          *)
(* synchronous calls of the callers.  create reads the environment when it *)
(* runs, so each initialization may succeed or throw.                      *)

Job(kind, attempt) == [kind |-> kind, attempt |-> attempt]

LogCall(op, attempt) == [op |-> op, attempt |-> attempt]

StoreCalls == { k \in 1..Len(storeLog) : storeLog[k].op \in {"get", "reset"} }

(* getVectorStore(): starts an initialization when initPromise is null,    *)
(* returns initPromise                                                     *)
GetVectorStore ==
  /\ Cardinality(StoreCalls) < MaxStoreCalls
  /\ IF initPromise = Null
     THEN /\ attempts' = Append(attempts, "pending")
          /\ jobs' = Append(jobs, Job("then", Len(attempts) + 1))
          /\ initPromise' = Some(Len(attempts) + 1)
          /\ storeLog' = Append(storeLog, LogCall("get", Len(attempts) + 1))
     ELSE /\ storeLog' = Append(storeLog, LogCall("get", initPromise[1]))
          /\ UNCHANGED <<initPromise, attempts, jobs>>
  /\ UNCHANGED <<runVars, now, loaderVars, served, serviceVars, dxfVars>>

(* resetVectorStore() *)
ResetVectorStore ==
  /\ Cardinality(StoreCalls) < MaxStoreCalls
  /\ initPromise' = Null
  /\ storeLog' = Append(storeLog, LogCall("reset", 0))
  /\ UNCHANGED <<attempts, jobs>>
  /\ UNCHANGED <<runVars, now, loaderVars, served, serviceVars, dxfVars>>

(* the then callback returns the store: the promise the callers hold is    *)
(* fulfilled with it                                                       *)
StoreCreated ==
  /\ Len(jobs) > 0
  /\ Head(jobs).kind = "then"
  /\ attempts' = [attempts EXCEPT ![Head(jobs).attempt] = "fulfilled"]
  /\ jobs' = Tail(jobs)
  /\ storeLog' = Append(storeLog, LogCall("created", Head(jobs).attempt))
  /\ UNCHANGED initPromise
  /\ UNCHANGED <<runVars, now, loaderVars, served, serviceVars, dxfVars>>

(* the then callback throws: the catch callback is queued *)
StoreCreationThrows ==
  /\ Len(jobs) > 0
  /\ Head(jobs).kind = "then"
  /\ attempts' = [attempts EXCEPT ![Head(jobs).attempt] = "threw"]
  /\ jobs' = Append(Tail(jobs), Job("catch", Head(jobs).attempt))
  /\ storeLog' = Append(storeLog, LogCall("threw", Head(jobs).attempt))
  /\ UNCHANGED initPromise
  /\ UNCHANGED <<runVars, now, loaderVars, served, serviceVars, dxfVars>>

(* the catch callback: initPromise = null, and the callers' promise is     *)
(* rejected                                                                *)
CatchRuns ==
  /\ Len(jobs) > 0
  /\ Head(jobs).kind = "catch"
  /\ initPromise' = Null
  /\ attempts' = [attempts EXCEPT ![Head(jobs).attempt] = "rejected"]
  /\ jobs' = Tail(jobs)
  /\ storeLog' = Append(storeLog, LogCall("caught", Head(jobs).attempt))
  /\ UNCHANGED <<runVars, now, loaderVars, served, serviceVars, dxfVars>>

NextStore ==
  \/ GetVectorStore
  \/ ResetVectorStore
  \/ StoreCreated
  \/ StoreCreationThrows
  \/ CatchRuns

SpecStore == InitServer /\ [][NextStore]_vars

----------------------------------------------------------------------------
(* Properties of the vector store singleton *)

Gets == { k \in 1..Len(storeLog) : storeLog[k].op = "get" }

NoResetBetween(i, j) == \A k \in i..j : storeLog[k].op # "reset"

(* the call that started the initialization a *)
StartOf(a) ==
  CHOOSE k \in Gets : storeLog[k].attempt = a /\
    \A m \in Gets : storeLog[m].attempt = a => k <= m

(* the initialization a is not settled when the log has k entries *)
PendingAt(a, k) ==
  \A m \in 1..k : ~(storeLog[m].attempt = a /\ storeLog[m].op \in {"created", "caught"})

(* C30: the vector store is a singleton with retry - callers that call     *)
(* while an initialization is pending share it, once an initialization has *)
(* succeeded every later call returns that store without starting another, *)
(* and after a failed initialization the next call starts a fresh one -    *)
(* in every interleaving of getVectorStore and resetVectorStore calls (a   *)
(* call after a resetVectorStore starting anew).                           *)
C30_AsStated ==
  \A j \in Gets :
    \A i \in 1..(j - 1) :
      /\ (/\ storeLog[i].op = "get"
          /\ PendingAt(storeLog[i].attempt, j)
          /\ NoResetBetween(i, j))
           => storeLog[j].attempt = storeLog[i].attempt
      /\ (/\ storeLog[i].op = "created"
          /\ NoResetBetween(StartOf(storeLog[i].attempt), j))
           => storeLog[j].attempt = storeLog[i].attempt
      /\ storeLog[i].op = "caught" => storeLog[j].attempt # storeLog[i].attempt

----------------------------------------------------------------------------
(* Label scoring and choice (text-matcher.ts).                              *)

Digits == {"0", "1", "2", "3", "4", "5", "6", "7", "8", "9"}

Letters == {LowerCase[i] : i \in 1..Len(LowerCase)} \cup
           {UpperCase[i] : i \in 1..Len(UpperCase)}

(* every character of s from position a to position b is in the class *)
allIn(s, a, b, class) == \A i \in a..b : s[i] \in class

(* /^\d+$/ on the characters of s from position a on *)
digitsFrom(s, a) == a <= Len(s) /\ allIn(s, a, Len(s), Digits)

(* /^\d+(\.\d+)?$/ *)
NUMERIC_RE_test(s) ==
  \/ digitsFrom(s, 1)
  \/ \E d \in 2..(Len(s) - 1) :
       /\ s[d] = "."
       /\ allIn(s, 1, d - 1, Digits)
       /\ digitsFrom(s, d + 1)

(* /^(L\d+-|DT\d{0,}|DS\d{0,})$/i, the pattern of scoreCandidate line 41 *)
TAG_RE_test(s) ==
  \/ /\ Len(s) >= 3
     /\ s[1] \in {"L", "l"}
     /\ s[Len(s)] = "-"
     /\ allIn(s, 2, Len(s) - 1, Digits)
  \/ /\ Len(s) >= 2
     /\ s[1] \in {"D", "d"}
     /\ s[2] \in {"T", "t", "S", "s"}
     /\ allIn(s, 3, Len(s), Digits)

(* /^[A-Z]{1,2}\d{2,}$/i *)
CODE_RE_test(s) ==
  \E n \in 1..2 :
    /\ Len(s) >= n + 2
    /\ allIn(s, 1, n, Letters)
    /\ allIn(s, n + 1, Len(s), Digits)

(* /\s/.test(text) || /_/.test(text) *)
MULTIWORD_RE_test(s) == \E i \in 1..Len(s) : s[i] \in {" ", "_"}

(* /^[A-Z][A-Z_ .]+$/i *)
ALPHA_RE_test(s) ==
  /\ Len(s) >= 2
  /\ s[1] \in Letters
  /\ allIn(s, 2, Len(s), Letters \cup {"_", " ", "."})

scoreCandidate(text) ==
  IF NUMERIC_RE_test(text) THEN 0 - 100
  ELSE IF TAG_RE_test(text) THEN 0 - 50
  ELSE (IF Len(text) <= 2 THEN 0 - 10 ELSE 0)
     + (IF CODE_RE_test(text) THEN 0 - 15 ELSE 0)
     + (IF MULTIWORD_RE_test(text) THEN 5 ELSE 0)
     + (IF ALPHA_RE_test(text) THEN 3 ELSE 0)
     + (IF Len(text) >= 4 THEN 2 ELSE 0)
     + (IF Len(text) >= 8 THEN 1 ELSE 0)

(* the comparator of the sort in pickLabel: negative when a goes before b *)
compareScored_scoreOnly(a, b) == b.score - a.score

compareScored(a, b) ==
  IF b.score # a.score THEN b.score - a.score
  ELSE Len(b.text) - Len(a.text)

(* Array.prototype.sort is stable: an element goes behind every element    *)
(* the comparator does not put it before                                    *)
RECURSIVE insertScored(_, _)
insertScored(sorted, e) ==
  IF sorted = <<>> THEN <<e>>
  ELSE IF compareScored(e, Head(sorted)) < 0 THEN <<e>> \o sorted
  ELSE <<Head(sorted)>> \o insertScored(Tail(sorted), e)

RECURSIVE sortScoredFrom(_, _)
sortScoredFrom(sorted, rest) ==
  IF rest = <<>> THEN sorted
  ELSE sortScoredFrom(insertScored(sorted, Head(rest)), Tail(rest))

ROOM == <<"R", "O", "O", "M">>

pickLabel(candidates) ==
  IF Len(candidates) = 0 THEN ROOM
  ELSE IF Len(candidates) = 1 THEN candidates[1]
  ELSE sortScoredFrom(<<>>,
         [i \in 1..Len(candidates) |->
            [text |-> candidates[i], score |-> scoreCandidate(candidates[i])]])[1].text

----------------------------------------------------------------------------
(* Layer detection (layer-detector.ts) and the layer test of parser.ts.     *)
(* The patterns carry the flag i: a name is searched in upper case.         *)

(* the characters of s from position i on begin with word *)
matchesAt(s, word, i) ==
  /\ i + Len(word) - 1 <= Len(s)
  /\ \A k \in 1..Len(word) : s[i + k - 1] = word[k]

(* /word/i *)
includesWord(name, word) ==
  \E i \in 1..Len(name) : matchesAt(toUpperCase(name), word, i)

(* /first.*second/i *)
includesInOrder(name, first, second) ==
  \E i \in 1..Len(name) : \E j \in (i + Len(first))..Len(name) :
    /\ matchesAt(toUpperCase(name), first, i)
    /\ matchesAt(toUpperCase(name), second, j)

BOUNDARY_LAYER_PATTERNS_test(name) ==
  \/ matchesAt(toUpperCase(name), <<"B", "O", "U", "N", "D", "A", "R", "Y">>, 1)
  \/ includesInOrder(name, <<"R", "O", "O", "M">>, <<"B", "O", "U", "N", "D">>)
  \/ includesInOrder(name, <<"A", "R", "E", "A">>, <<"B", "O", "U", "N", "D">>)

TEXT_LAYER_PATTERNS_test(name) ==
  \/ includesInOrder(name, <<"A", "R", "E", "A">>, <<"I", "D", "E", "N">>)
  \/ includesInOrder(name, <<"R", "O", "O", "M">>, <<"N", "A", "M", "E">>)
  \/ includesInOrder(name, <<"R", "O", "O", "M">>, <<"L", "A", "B", "E", "L">>)
  \/ includesInOrder(name, <<"A", "R", "E", "A">>, <<"N", "A", "M", "E">>)

ANNOTATION_LAYER_BLACKLIST ==
  { <<"A", "N", "N", "O">>,
    <<"S", "Y", "M", "B">>,
    <<"D", "I", "M">>,
    <<"N", "O", "T", "E">>,
    <<"T", "A", "G">>,
    <<"T", "I", "T", "L", "E">>,
    <<"G", "R", "I", "D">>,
    <<"H", "A", "T", "C", "H">>,
    <<"P", "A", "T", "T">>,
    <<"D", "O", "O", "R">>,
    <<"W", "I", "N", "D", "O", "W">>,
    <<"F", "U", "R", "N">>,
    <<"F", "I", "X", "T">>,
    <<"C", "A", "S", "E">>,
    <<"G", "L", "A", "Z">>,
    <<"S", "A", "N", "R">>,
    <<"D", "E", "T", "L">>,
    <<"F", "L", "O", "R">>,
    <<"W", "A", "L", "L">>,
    <<"G", "E", "N", "F">>,
    <<"T", "H", "I", "N">>,
    <<"C", "E", "I", "L">>,
    <<"E", "L", "E", "C">>,
    <<"M", "E", "C", "H">>,
    <<"P", "L", "M", "B">>,
    <<"L", "E", "G", "E", "N", "D">> }

isAnnotationLayer(layerName) ==
  \/ \E word \in ANNOTATION_LAYER_BLACKLIST : includesWord(layerName, word)
  \/ includesInOrder(layerName, <<"F", "I", "R", "E">>, <<"P", "R", "O", "T">>)

isBoundaryLayer(name) == BOUNDARY_LAYER_PATTERNS_test(name)

isTextLayer(name) == TEXT_LAYER_PATTERNS_test(name)

isNotAnnotationLayer(name) == ~isAnnotationLayer(name)

(* text: the label layers, else the layers off the blacklist, else all *)
effectiveTextLayers(textLayers, allLayers) ==
  IF Len(textLayers) > 0 THEN textLayers
  ELSE SelectSeq(allLayers, isNotAnnotationLayer)

textLayersOr(effective, allLayers) ==
  IF Len(effective) > 0 THEN effective ELSE allLayers

detectLayers(allLayers) ==
  [boundary |-> SelectSeq(allLayers, isBoundaryLayer),
   text |-> textLayersOr(
              effectiveTextLayers(SelectSeq(allLayers, isTextLayer), allLayers),
              allLayers)]

(* entity.layer ?? "" *)
layerOf(entity) == IF entity.layer = Null THEN <<>> ELSE entity.layer[1]

(* localeCompare with sensitivity "accent" is 0 for names that differ in    *)
(* case only                                                                *)
isOnLayer(entity, allowedLayers) ==
  \/ Len(allowedLayers) = 0
  \/ \E k \in 1..Len(allowedLayers) :
       toUpperCase(allowedLayers[k]) = toUpperCase(trim(layerOf(entity)))

----------------------------------------------------------------------------
(* cleanText (text-matcher.ts)                                              *)

(* replace(/\\P/gi, "") *)
RECURSIVE removeParagraphCodes(_)
removeParagraphCodes(s) ==
  IF Len(s) = 0 THEN s
  ELSE IF Len(s) >= 2 /\ s[1] = "\\" /\ s[2] \in {"P", "p"}
       THEN removeParagraphCodes(SubSeq(s, 3, Len(s)))
       ELSE <<Head(s)>> \o removeParagraphCodes(Tail(s))

(* replace(/\\[a-zA-Z][^;]{0,};/g, ""): a backslash, a letter and what     *)
(* follows up to the next semicolon                                         *)
RECURSIVE removeFormatCodes(_)
removeFormatCodes(s) ==
  IF Len(s) = 0 THEN s
  ELSE IF /\ Len(s) >= 3
          /\ s[1] = "\\"
          /\ s[2] \in Letters
          /\ \E j \in 3..Len(s) : s[j] = ";"
       THEN removeFormatCodes(
              SubSeq(s, 1 + (CHOOSE j \in 3..Len(s) :
                               /\ s[j] = ";"
                               /\ \A k \in 3..(j - 1) : s[k] # ";"), Len(s)))
       ELSE <<Head(s)>> \o removeFormatCodes(Tail(s))

isNoBrace(c) == c \notin {"{", "}"}

cleanText(raw) ==
  toUpperCase(trim(SelectSeq(removeFormatCodes(removeParagraphCodes(raw)), isNoBrace)))

----------------------------------------------------------------------------
(* Polygons (polygon-builder.ts).                                           *)
(*                                                                          *)
(* Coordinates and distances are counted in twentieths of a drawing unit,   *)
(* raw areas in 1/400 of a square drawing unit, so that the rounding to 0.1 *)
(* of the deduplication key and the rounding to 0.01 of the converted area  *)
(* are computed on exact values.  The boundaries of the model are           *)
(* axis-parallel rectangles given by their vertex lists, in either          *)
(* orientation, closed or open, and vertex lists too short for a polygon;   *)
(* for these the point tests of Flatten.Polygon are the tests against the   *)
(* bounding box.                                                            *)

MM_THRESHOLD == 500000

MM_FACTOR == 1000000

(* 0.2 m2, in hundredths *)
MIN_ROOM_AREA == 20

(* 500 drawing units *)
TEXT_MATCH_TOLERANCE == 500

Point(x, y) == [x |-> x, y |-> y]

Abs(n) == IF n < 0 THEN 0 - n ELSE n

MinOf(S) == CHOOSE m \in S : \A n \in S : m <= n

MaxOf(S) == CHOOSE m \in S : \A n \in S : n <= m

boxOf(points) ==
  [xmin |-> MinOf({points[i].x : i \in 1..Len(points)}),
   ymin |-> MinOf({points[i].y : i \in 1..Len(points)}),
   xmax |-> MaxOf({points[i].x : i \in 1..Len(points)}),
   ymax |-> MaxOf({points[i].y : i \in 1..Len(points)})]

(* twice the signed area of the ring, taken from its first point *)
RECURSIVE signedArea2(_, _)
signedArea2(points, i) ==
  IF i >= Len(points) THEN 0
  ELSE (points[i].x - points[1].x) * (points[i + 1].y - points[1].y)
     - (points[i + 1].x - points[1].x) * (points[i].y - points[1].y)
     + signedArea2(points, i + 1)

(* the ring is closed with its first point when it is open *)
closeRing(points) ==
  IF points[1] # points[Len(points)] THEN Append(points, points[1]) ELSE points

PolylineData(points) ==
  [points |-> points,
   box |-> boxOf(points),
   rawArea |-> Abs(signedArea2(points, 1)) \div 2]

buildPolygon(verts) ==
  IF Len(verts) < 3 THEN Null ELSE Some(PolylineData(closeRing(verts)))

(* r = Math.round(n * 10) / 10, in tenths: of a length and of an area *)
roundTenthOfLength(n) == (n + 1) \div 2

roundTenthOfArea(a) == (a + 20) \div 40

polylineDeduplicationKey(poly) ==
  <<roundTenthOfLength(poly.box.xmin), roundTenthOfLength(poly.box.ymin),
    roundTenthOfLength(poly.box.xmax), roundTenthOfLength(poly.box.ymax),
    roundTenthOfArea(poly.rawArea)>>

(* the bounding box pre-filter: (xMax - xMin) * (yMax - yMin) < 0.2 *)
isAnnotationSized(verts) ==
  /\ Len(verts) >= 3
  /\ (boxOf(verts).xmax - boxOf(verts).xmin)
       * (boxOf(verts).ymax - boxOf(verts).ymin) < 4 * MIN_ROOM_AREA

RECURSIVE builtPolylines(_)
builtPolylines(vertLists) ==
  IF vertLists = <<>> THEN <<>>
  ELSE IF isAnnotationSized(Head(vertLists)) THEN builtPolylines(Tail(vertLists))
  ELSE buildPolygon(Head(vertLists)) \o builtPolylines(Tail(vertLists))

(* the polygons whose key no earlier polygon has *)
RECURSIVE deduplicate_keepLast(_, _)
deduplicate_keepLast(polylines, i) ==
  IF i > Len(polylines) THEN <<>>
  ELSE (IF \E j \in (i + 1)..Len(polylines) :
             polylineDeduplicationKey(polylines[j]) = polylineDeduplicationKey(polylines[i])
        THEN <<>> ELSE <<polylines[i]>>) \o deduplicate_keepLast(polylines, i + 1)

RECURSIVE deduplicate(_, _)
deduplicate(polylines, i) ==
  IF i > Len(polylines) THEN <<>>
  ELSE (IF \E j \in 1..(i - 1) :
             polylineDeduplicationKey(polylines[j]) = polylineDeduplicationKey(polylines[i])
        THEN <<>> ELSE <<polylines[i]>>) \o deduplicate(polylines, i + 1)

buildRoomPolygons(lwPolylineVerts, legacyPolylineVerts) ==
  deduplicate(builtPolylines(lwPolylineVerts \o legacyPolylineVerts), 1)

isSignificant(p) == p.rawArea > 400

(* slice(0, 5) *)
firstFive(q) == SubSeq(q, 1, IF Len(q) < 5 THEN Len(q) ELSE 5)

rawAreas(q) == [i \in 1..Len(q) |-> q[i].rawArea]

Metres == [factor |-> 1, detected |-> "Meters / Units (Scale 1:1)"]

Millimetres == [factor |-> MM_FACTOR, detected |-> "Millimeters (dividing by 1 000 000)"]

(* avg > MM_THRESHOLD || insunits === 4, the average in whole square units *)
unitsOfSamples(samples, insunits) ==
  IF Len(samples) = 0 THEN Metres
  ELSE IF \/ SumSeq(samples) > 400 * MM_THRESHOLD * Len(samples)
          \/ insunits = Some(4)
       THEN Millimetres
       ELSE Metres

detectUnits(polylines, insunits) ==
  unitsOfSamples(rawAreas(firstFive(SelectSeq(polylines, isSignificant))), insunits)

----------------------------------------------------------------------------
(* matchTextsToRooms (text-matcher.ts)                                      *)

TextEntity(text, point) == [text |-> text, point |-> point, matched |-> FALSE]

RawRoom(id, name, area, allLabels) ==
  [id |-> id, name |-> name, area |-> area, allLabels |-> allLabels]

(* Math.round((rawArea / factor) * 100) / 100, in hundredths *)
convertedArea(rawArea, factor) == (rawArea + 2 * factor) \div (4 * factor)

(* if (area < minRoomArea) continue *)
isBelowMinimum_never(area, minRoomArea) == FALSE

isBelowMinimum(area, minRoomArea) == area < minRoomArea

(* polygon.contains(point) *)
contains(poly, point) ==
  /\ poly.box.xmin <= point.x /\ point.x <= poly.box.xmax
  /\ poly.box.ymin <= point.y /\ point.y <= poly.box.ymax

labelsOf(texts) == [i \in 1..Len(texts) |-> texts[i].text]

textsInside(poly, texts) ==
  LET isInside(te) == contains(poly, te.point)
  IN SelectSeq(texts, isInside)

markInside(poly, texts) ==
  [i \in 1..Len(texts) |->
     IF contains(poly, texts[i].point)
     THEN [texts[i] EXCEPT !.matched = TRUE]
     ELSE texts[i]]

(* pass 1: one room for every polygon of at least the minimum area, with    *)
(* the texts inside it                                                      *)
RECURSIVE strictPass(_, _, _, _, _)
strictPass(polylines, factor, minRoomArea, texts, acc) ==
  IF polylines = <<>> THEN [acc EXCEPT !.texts = texts]
  ELSE IF isBelowMinimum(convertedArea(Head(polylines).rawArea, factor), minRoomArea)
       THEN strictPass(Tail(polylines), factor, minRoomArea, texts, acc)
       ELSE strictPass(Tail(polylines), factor, minRoomArea,
              markInside(Head(polylines), texts),
              [acc EXCEPT
                 !.rawRooms = Append(@,
                    RawRoom(Len(acc.rawRooms) + 1,
                            pickLabel(labelsOf(textsInside(Head(polylines), texts))),
                            convertedArea(Head(polylines).rawArea, factor),
                            labelsOf(textsInside(Head(polylines), texts)))),
                 !.roomPolylines = Append(@, Head(polylines))])

(* the bounding-box pre-filter of pass 2 *)
outsideTolerance(box, point) ==
  \/ point.x < box.xmin - 20 * TEXT_MATCH_TOLERANCE
  \/ point.x > box.xmax + 20 * TEXT_MATCH_TOLERANCE
  \/ point.y < box.ymin - 20 * TEXT_MATCH_TOLERANCE
  \/ point.y > box.ymax + 20 * TEXT_MATCH_TOLERANCE

(* how far the point is from the interval [lo, hi] *)
gap(lo, hi, c) == IF c < lo THEN lo - c ELSE IF c > hi THEN c - hi ELSE 0

(* the square of polygon.distanceTo(point)[0] *)
distanceTo2(poly, point) ==
  gap(poly.box.xmin, poly.box.xmax, point.x) * gap(poly.box.xmin, poly.box.xmax, point.x)
  + gap(poly.box.ymin, poly.box.ymax, point.y) * gap(poly.box.ymin, poly.box.ymax, point.y)

(* the loop over the rooms: bestRoom is 0 for null, distances are compared  *)
(* by their squares                                                         *)
RECURSIVE bestRoomFrom_lastNearest(_, _, _, _, _)
bestRoomFrom_lastNearest(roomPolylines, point, i, bestDist2, bestRoom) ==
  IF i > Len(roomPolylines) THEN bestRoom
  ELSE IF outsideTolerance(roomPolylines[i].box, point)
       THEN bestRoomFrom_lastNearest(roomPolylines, point, i + 1, bestDist2, bestRoom)
       ELSE IF distanceTo2(roomPolylines[i], point) <= bestDist2
            THEN bestRoomFrom_lastNearest(roomPolylines, point, i + 1,
                              distanceTo2(roomPolylines[i], point), i)
            ELSE bestRoomFrom_lastNearest(roomPolylines, point, i + 1, bestDist2, bestRoom)

RECURSIVE bestRoomFrom(_, _, _, _, _)
bestRoomFrom(roomPolylines, point, i, bestDist2, bestRoom) ==
  IF i > Len(roomPolylines) THEN bestRoom
  ELSE IF outsideTolerance(roomPolylines[i].box, point)
       THEN bestRoomFrom(roomPolylines, point, i + 1, bestDist2, bestRoom)
       ELSE IF distanceTo2(roomPolylines[i], point) < bestDist2
            THEN bestRoomFrom(roomPolylines, point, i + 1,
                              distanceTo2(roomPolylines[i], point), i)
            ELSE bestRoomFrom(roomPolylines, point, i + 1, bestDist2, bestRoom)

bestRoomOf(roomPolylines, point) ==
  bestRoomFrom(roomPolylines, point, 1,
               (20 * TEXT_MATCH_TOLERANCE) * (20 * TEXT_MATCH_TOLERANCE), 0)

(* bestRoom.allLabels.push(te.text); bestRoom.name = pickLabel(...) *)
attachLabel(room, text) ==
  [room EXCEPT !.allLabels = Append(@, text),
               !.name = pickLabel(Append(room.allLabels, text))]

attachTo(acc, k, bestRoom) ==
  IF bestRoom = 0 THEN acc
  ELSE [acc EXCEPT !.rawRooms[bestRoom] = attachLabel(@, acc.texts[k].text),
                   !.texts[k].matched = TRUE]

(* pass 2: the texts pass 1 left unmatched, in their order *)
RECURSIVE tolerancePass(_, _, _)
tolerancePass(acc, unmatched, k) ==
  IF k > Len(acc.texts) THEN acc
  ELSE IF k \notin unmatched THEN tolerancePass(acc, unmatched, k + 1)
  ELSE tolerancePass(attachTo(acc, k, bestRoomOf(acc.roomPolylines, acc.texts[k].point)),
                     unmatched, k + 1)

unmatchedTexts(texts) == {k \in 1..Len(texts) : ~texts[k].matched}

tolerancePassOf(acc) == tolerancePass(acc, unmatchedTexts(acc.texts), 1)

matchTextsToRooms(texts, polylines, factor, minRoomArea) ==
  tolerancePassOf(
    strictPass(polylines, factor, minRoomArea, texts,
               [rawRooms |-> <<>>, roomPolylines |-> <<>>, texts |-> texts]))

----------------------------------------------------------------------------
(* parseDxfContent (parser.ts)                                              *)

(* an entity of the parsed file; a field the file leaves out is null *)
DxfEntity(type, layer, text, position, startPoint, vertices, shape) ==
  [type |-> type, layer |-> layer, text |-> text, position |-> position,
   startPoint |-> startPoint, vertices |-> vertices, shape |-> shape]

(* a ?? b *)
orElse(a, b) == IF a = Null THEN b ELSE a[1]

extractLayerNames(file) == orElse(file.layers, <<>>)

isTextEntity(e) == e.type \in {"TEXT", "MTEXT"}

isBoundaryEntity(e) == e.type = "LWPOLYLINE" \/ (e.type = "POLYLINE" /\ ~e.shape)

(* e.position ?? e.startPoint *)
positionOf(e) == IF e.position = Null THEN e.startPoint ELSE e.position

(* text && pos *)
hasTextAndPosition(e) ==
  /\ cleanText(orElse(e.text, <<>>)) # <<>>
  /\ positionOf(e) # Null

textEntityOf(e) ==
  TextEntity(cleanText(orElse(e.text, <<>>)), positionOf(e)[1])

verticesOf(e) == orElse(e.vertices, <<>>)

parsedTexts(entities, textLayers) ==
  LET isKept(e) == isTextEntity(e) /\ isOnLayer(e, textLayers) /\ hasTextAndPosition(e)
      kept == SelectSeq(entities, isKept)
  IN [i \in 1..Len(kept) |-> textEntityOf(kept[i])]

parsedVertices(entities, type, boundaryLayers) ==
  LET isKept(e) == e.type = type /\ isBoundaryEntity(e) /\ isOnLayer(e, boundaryLayers)
      kept == SelectSeq(entities, isKept)
  IN [i \in 1..Len(kept) |-> verticesOf(kept[i])]

parsedWith(file, layersUsed) ==
  [insunits |-> file.insunits,
   layersUsed |-> layersUsed,
   texts |-> parsedTexts(file.entities[1], layersUsed.text),
   lwPolylineVerts |-> parsedVertices(file.entities[1], "LWPOLYLINE", layersUsed.boundary),
   legacyPolylineVerts |-> parsedVertices(file.entities[1], "POLYLINE", layersUsed.boundary)]

parseDxfContent(file) ==
  IF file.entities = Null
  THEN Throws("Invalid DXF file: missing entity data")
  ELSE Returns(parsedWith(file, detectLayers(extractLayerNames(file))))

----------------------------------------------------------------------------
(* The uploaded files of the model, as DxfParser.parseSync returns them.    *)

(* the number of boundaries of a file whose units are to be detected *)
MaxPolys == 6

(* the number of boundary entities of a file with repeated boundaries *)
MaxBoundaries == 3

(* the number of texts of a file whose texts lie in and around the rooms *)
MaxTexts == 2

(* the number of texts inside one room *)
MaxLabels == 3

DxfFile(insunits, layers, entities) ==
  [insunits |-> insunits, layers |-> layers, entities |-> entities]

(* a whole number of drawing units, in twentieths *)
u(n) == 20 * n

(* the rectangle with the corner (x, y), counter-clockwise and open, and    *)
(* clockwise and closed                                                     *)
Rect(x, y, w, h) ==
  <<Point(x, y), Point(x + w, y), Point(x + w, y + h), Point(x, y + h)>>

RectClockwise(x, y, w, h) ==
  <<Point(x, y), Point(x, y + h), Point(x + w, y + h), Point(x + w, y), Point(x, y)>>

LwPolyline(layer, verts) ==
  DxfEntity("LWPOLYLINE", layer, Null, Null, Null, Some(verts), FALSE)

Polyline(layer, verts, shape) ==
  DxfEntity("POLYLINE", layer, Null, Null, Null, Some(verts), shape)

Text(layer, text, point) ==
  DxfEntity("TEXT", layer, Some(text), Null, Some(point), Null, FALSE)

MText(layer, text, point) ==
  DxfEntity("MTEXT", layer, Some(text), Some(point), Null, Null, FALSE)

BEDROOM == <<"B", "E", "D", "R", "O", "O", "M">>

(* files for the detection of the units: boundaries side by side, a speck   *)
(* of 1 x 0.5, 800 x 600 and 1000 x 1000 units, with and without a header   *)
UnitShapes == {<<20, 10>>, <<u(800), u(600)>>, <<u(1000), u(1000)>>}

UnitFiles ==
  { DxfFile(insunits, Null,
            [k \in 1..Len(shapes) |->
               LwPolyline(Null, Rect(k * u(1200), 0, shapes[k][1], shapes[k][2]))])
    : insunits \in {Null, Some(4), Some(6)}, shapes \in SeqsUpTo(UnitShapes, MaxPolys) }

(* files with repeated boundaries: 2 x 0.5 units in both orientations,      *)
(* 1.95 x 0.5, which has the same key; 400 x 400; 3.95 x 0.05, which the    *)
(* pre-filter drops, and 4 x 0.05 with the same key; two vertices only; a   *)
(* mesh; with a header for millimetres, 400 x 400 is below the minimum area *)
RepeatedBoundaries ==
  { LwPolyline(Null, Rect(0, 0, 40, 10)),
    LwPolyline(Null, Rect(0, 0, 39, 10)),
    LwPolyline(Null, Rect(0, 0, u(400), u(400))),
    LwPolyline(Null, Rect(0, 0, 79, 1)),
    LwPolyline(Null, <<Point(0, 0), Point(40, 10)>>),
    Polyline(Null, Rect(0, 0, 40, 10), FALSE),
    Polyline(Null, RectClockwise(0, 0, 40, 10), FALSE),
    Polyline(Null, Rect(0, 0, u(400), u(400)), FALSE),
    Polyline(Null, Rect(0, 0, 80, 1), FALSE),
    Polyline(Null, Rect(0, 0, 40, 10), TRUE) }

MillimetreBoundaries ==
  { LwPolyline(Null, Rect(0, 0, u(400), u(400))),
    LwPolyline(Null, Rect(0, 0, u(1000), u(1000))),
    Polyline(Null, Rect(0, 0, u(400), u(400)), FALSE) }

RepeatedFiles ==
  { DxfFile(Null, Null, entities)
    : entities \in SeqsUpTo(RepeatedBoundaries, MaxBoundaries) } \cup
  { DxfFile(Some(4), Null, entities)
    : entities \in SeqsUpTo(MillimetreBoundaries, MaxBoundaries) }

(* files in millimetres: the rooms A and B of 1000 x 1000, 600 apart, the   *)
(* boundary C of 400 x 400 between them, the boundary S of 395 x 500, and   *)
(* texts inside A, 300 and 500 and 800 left of A, between A and B, and      *)
(* inside C                                                                 *)
RoomA == Rect(0, 0, u(1000), u(1000))

RoomB == Rect(u(1600), 0, u(1000), u(1000))

BoundaryC == Rect(u(1150), 0, u(400), u(400))

BoundaryS == Rect(0 - u(2000), 0, u(395), u(500))

Layouts ==
  { <<LwPolyline(Null, RoomA)>>,
    <<LwPolyline(Null, RoomA), LwPolyline(Null, RoomB)>>,
    <<LwPolyline(Null, RoomA), LwPolyline(Null, BoundaryC), LwPolyline(Null, RoomB)>>,
    <<LwPolyline(Null, BoundaryS), LwPolyline(Null, BoundaryC),
      Polyline(Null, RoomA, FALSE)>> }

TextPoints ==
  { Point(u(500), u(500)), Point(0 - u(300), u(500)), Point(0 - u(500), u(500)),
    Point(0 - u(800), u(500)), Point(u(1400), u(700)), Point(u(1300), u(700)),
    Point(u(1400), u(200)) }

TextFiles ==
  { DxfFile(Some(4), Null,
            layout \o [k \in 1..Len(texts) |-> Text(Null, texts[k][1], texts[k][2])])
    : layout \in Layouts,
      texts \in SeqsUpTo({BEDROOM, <<"1", "2">>} \X TextPoints, MaxTexts) }

(* files with the texts of one room, as the file writes them *)
RawTexts ==
  { <<"1", "2">>,
    <<"D", "T", "1">>,
    <<"A", "Z", "4", "5", "1">>,
    BEDROOM,
    <<"K", "I", "T", "C", "H", "E", "N">>,
    <<" ", "L", "i", "v", "i", "n", "g">>,
    <<"{", "\\", "f", "A", ";", "F", "I", "R", "E", " ", "L", "O", "B", "B", "Y", "}">>,
    <<"\\", "P">> }

LabelFiles ==
  { DxfFile(Some(4), Null,
            <<LwPolyline(Null, RoomA)>> \o
            [k \in 1..Len(texts) |-> MText(Null, texts[k], Point(u(500), u(500)))])
    : texts \in SeqsUpTo(RawTexts, MaxLabels) }

(* files with a layer table: a room and a text inside it, each on a layer   *)
LayerNames ==
  << <<"0">>,
     <<"B", "o", "u", "n", "d", "a", "r", "y">>,
     <<"A", "-", "A", "R", "E", "A", "-", "I", "D", "E", "N">>,
     <<"A", "-", "A", "N", "N", "O">> >>

LayerTables ==
  {Null} \cup
  { Some(SelectSeq(LayerNames, LAMBDA name : name \in chosen))
    : chosen \in SUBSET {LayerNames[i] : i \in 1..Len(LayerNames)} }

EntityLayers ==
  {Null, Some(<<" ", "b", "o", "u", "n", "d", "a", "r", "y", " ">>)} \cup {Some(LayerNames[i]) : i \in 1..Len(LayerNames)}

LayerFiles ==
  { DxfFile(Some(4), layers,
            <<LwPolyline(boundaryLayer, RoomA),
              Text(textLayer, BEDROOM, Point(u(500), u(500)))>>)
    : layers \in LayerTables, boundaryLayer \in EntityLayers, textLayer \in EntityLayers }

(* a file without an entity section *)
NoEntities == DxfFile(Null, Null, Null)

Drawings ==
  {NoEntities} \cup
  { [file EXCEPT !.entities = Some(file.entities)]
    : file \in UnitFiles \cup RepeatedFiles \cup TextFiles \cup LabelFiles \cup LayerFiles }

----------------------------------------------------------------------------
(* processDxfFile (processor.ts), one step for each function it calls.      *)

(* the upload has been parsed by DxfParser; nothing else of the server runs *)
InitDxf ==
  /\ pc = "idle"
  /\ geometry = NoGeometry
  /\ resolvedLabels = <<>>
  /\ uniqueRoomInputs = <<>>
  /\ analysisResults = <<>>
  /\ warnings = <<>>
  /\ result = Null
  /\ events = <<>>
  /\ stages = <<>>
  /\ codeContext = <<>>
  /\ analyzeCalls = <<>>
  /\ now = 0
  /\ ragCache = <<>>
  /\ calls = <<>>
  /\ fans = <<>>
  /\ served = <<>>
  /\ dxfLabels = <<>>
  /\ aiClassifications = <<>>
  /\ aiCategoryValues = <<>>
  /\ initPromise = Null
  /\ attempts = <<>>
  /\ jobs = <<>>
  /\ storeLog = <<>>
  /\ dxfPc = "parseDxfContent"
  /\ dxf \in Drawings
  /\ parsed = Null
  /\ uniquePolylines = <<>>
  /\ units = Null
  /\ matched = Null

unusedByDxf == <<runVars, now, loaderVars, served, serviceVars, storeVars>>

ParseDxfContent ==
  /\ dxfPc = "parseDxfContent"
  /\ ~parseDxfContent(dxf).threw
  /\ parsed' = Some(parseDxfContent(dxf).value)
  /\ dxfPc' = "buildRoomPolygons"
  /\ UNCHANGED <<dxf, uniquePolylines, units, matched, unusedByDxf>>

(* parseDxfContent threw: the catch block returns success: false *)
ParseDxfContentThrows ==
  /\ dxfPc = "parseDxfContent"
  /\ parseDxfContent(dxf).threw
  /\ dxfPc' = "failed"
  /\ UNCHANGED <<dxf, parsed, uniquePolylines, units, matched, unusedByDxf>>

BuildRoomPolygons ==
  /\ dxfPc = "buildRoomPolygons"
  /\ uniquePolylines' =
       buildRoomPolygons(parsed[1].lwPolylineVerts, parsed[1].legacyPolylineVerts)
  /\ dxfPc' = "detectUnits"
  /\ UNCHANGED <<dxf, parsed, units, matched, unusedByDxf>>

DetectUnits ==
  /\ dxfPc = "detectUnits"
  /\ units' = Some(detectUnits(uniquePolylines, parsed[1].insunits))
  /\ dxfPc' = "matchTextsToRooms"
  /\ UNCHANGED <<dxf, parsed, uniquePolylines, matched, unusedByDxf>>

(* matchTextsToRooms returns and processDxfFile returns success: true *)
MatchTextsToRooms ==
  /\ dxfPc = "matchTextsToRooms"
  /\ matched' = Some(matchTextsToRooms(parsed[1].texts, uniquePolylines,
                                        units[1].factor, MIN_ROOM_AREA))
  /\ dxfPc' = "returned"
  /\ UNCHANGED <<dxf, parsed, uniquePolylines, units, unusedByDxf>>

(* the DxfGeometryResult of a call that has returned *)
dxfGeometryResult ==
  IF dxfPc = "failed"
  THEN [success |-> FALSE, rawRooms |-> <<>>, totalRooms |-> 0,
        unitsDetected |-> "Unknown",
        layersUsed |-> [boundary |-> <<>>, text |-> <<>>]]
  ELSE [success |-> TRUE, rawRooms |-> matched[1].rawRooms,
        totalRooms |-> Len(matched[1].rawRooms),
        unitsDetected |-> units[1].detected,
        layersUsed |-> parsed[1].layersUsed]

NextDxf ==
  \/ ParseDxfContent
  \/ ParseDxfContentThrows
  \/ BuildRoomPolygons
  \/ DetectUnits
  \/ MatchTextsToRooms

SpecDxf == InitDxf /\ [][NextDxf]_vars

----------------------------------------------------------------------------
(* Properties of processDxfFile                                             *)

Returned == dxfPc = "returned"

RoomsReturned == IF Returned THEN matched[1].rawRooms ELSE <<>>

(* candidate i of the list is preferred to candidate j: a higher score, or  *)
(* the same score and a longer string, or both the same and an earlier      *)
(* place in the list                                                        *)
Preferred(candidates, i, j) ==
  \/ scoreCandidate(candidates[i]) > scoreCandidate(candidates[j])
  \/ /\ scoreCandidate(candidates[i]) = scoreCandidate(candidates[j])
     /\ Len(candidates[i]) > Len(candidates[j])
  \/ /\ scoreCandidate(candidates[i]) = scoreCandidate(candidates[j])
     /\ Len(candidates[i]) = Len(candidates[j])
     /\ i < j

(* C26: pickLabel returns "ROOM" for an empty candidate list; for a         *)
(* non-empty list it returns the member with the highest score, among       *)
(* those the longest, and among those the earliest of the list.  Checked on *)
(* every candidate list pickLabel is called with: the labels of a room.     *)
C26_PickLabel ==
  \A r \in 1..Len(RoomsReturned) :
    IF RoomsReturned[r].allLabels = <<>>
    THEN pickLabel(RoomsReturned[r].allLabels) = ROOM
    ELSE \E i \in 1..Len(RoomsReturned[r].allLabels) :
           /\ pickLabel(RoomsReturned[r].allLabels) = RoomsReturned[r].allLabels[i]
           /\ \A j \in 1..Len(RoomsReturned[r].allLabels) :
                j # i => Preferred(RoomsReturned[r].allLabels, i, j)

(* three candidates, the first two equal in score and in length and ahead   *)
(* of the third by length only: the first one is returned                   *)
C26_Witness ==
  \E r \in 1..Len(RoomsReturned) :
    /\ Len(RoomsReturned[r].allLabels) = 3
    /\ RoomsReturned[r].allLabels[1] # RoomsReturned[r].allLabels[2]
    /\ scoreCandidate(RoomsReturned[r].allLabels[1]) =
         scoreCandidate(RoomsReturned[r].allLabels[2])
    /\ Len(RoomsReturned[r].allLabels[1]) = Len(RoomsReturned[r].allLabels[2])
    /\ scoreCandidate(RoomsReturned[r].allLabels[3]) =
         scoreCandidate(RoomsReturned[r].allLabels[1])
    /\ Len(RoomsReturned[r].allLabels[3]) < Len(RoomsReturned[r].allLabels[1])
    /\ pickLabel(RoomsReturned[r].allLabels) = RoomsReturned[r].allLabels[1]
    /\ RoomsReturned[r].name = RoomsReturned[r].allLabels[1]

----------------------------------------------------------------------------
(* the raw areas of the first up to five polygons of more than one square unit *)
SampledAreas == rawAreas(firstFive(SelectSeq(uniquePolylines, isSignificant)))

MeanExceedsThreshold ==
  /\ Len(SampledAreas) > 0
  /\ SumSeq(SampledAreas) > 400 * MM_THRESHOLD * Len(SampledAreas)

HeaderDeclaresMillimetres == parsed # Null /\ parsed[1].insunits = Some(4)

UnitsDetected == units # Null

(* C22: the areas of a file are divided by 1,000,000 if and only if the     *)
(* mean raw area of the first up to five polygons of raw area above 1       *)
(* exceeds 500,000 or the header declares unit code 4; otherwise they are   *)
(* left as they are; the area of every room is its polygon's raw area under *)
(* the one factor chosen.                                                   *)
C22_AsStated ==
  UnitsDetected =>
    /\ units[1].factor = MM_FACTOR <=>
         (MeanExceedsThreshold \/ HeaderDeclaresMillimetres)
    /\ units[1].factor # MM_FACTOR => units[1].factor = 1
    /\ \A r \in 1..Len(RoomsReturned) :
         RoomsReturned[r].area =
           convertedArea(matched[1].roomPolylines[r].rawArea, units[1].factor)

----------------------------------------------------------------------------
RoomPolylinesReturned == IF Returned THEN matched[1].roomPolylines ELSE <<>>

(* rawArea / factor is below 0.2, before the rounding to 0.01 *)
ExactlyBelowMinimum(poly) == poly.rawArea < 4 * MIN_ROOM_AREA * units[1].factor

----------------------------------------------------------------------------
(* the vertex lists of the boundary entities, modern before legacy *)
BoundaryVertices ==
  IF parsed = Null THEN <<>>
  ELSE parsed[1].lwPolylineVerts \o parsed[1].legacyPolylineVerts

polygonsOf(vertLists) ==
  [i \in 1..Len(vertLists) |-> PolylineData(closeRing(vertLists[i]))]

(* the polygons buildRoomPolygons builds from them *)
BuiltOccurrences ==
  LET isBuilt(verts) == Len(verts) >= 3 /\ ~isAnnotationSized(verts)
  IN polygonsOf(SelectSeq(BoundaryVertices, isBuilt))

(* equal bounding box and equal area, each rounded to 0.1 *)
SameBoundary(p, q) ==
  /\ roundTenthOfLength(p.box.xmin) = roundTenthOfLength(q.box.xmin)
  /\ roundTenthOfLength(p.box.ymin) = roundTenthOfLength(q.box.ymin)
  /\ roundTenthOfLength(p.box.xmax) = roundTenthOfLength(q.box.xmax)
  /\ roundTenthOfLength(p.box.ymax) = roundTenthOfLength(q.box.ymax)
  /\ roundTenthOfArea(p.rawArea) = roundTenthOfArea(q.rawArea)

RoomsOfBoundary(p) ==
  {r \in 1..Len(RoomPolylinesReturned) : SameBoundary(RoomPolylinesReturned[r], p)}

(* occurrence i is the first of its boundary and not the only one *)
FirstOfRepeated(occ, i) ==
  /\ \A j \in 1..(i - 1) : ~SameBoundary(occ[j], occ[i])
  /\ \E j \in (i + 1)..Len(occ) : SameBoundary(occ[j], occ[i])

----------------------------------------------------------------------------
TextsReturned == IF Returned THEN matched[1].texts ELSE <<>>

(* the point lies inside an accepted polygon: one that has become a room *)
InsideAccepted(point) ==
  \E r \in 1..Len(RoomPolylinesReturned) : contains(RoomPolylinesReturned[r], point)

(* the distance from the point to the polygon of room r is below the        *)
(* tolerance of 500 units                                                   *)
WithinTolerance(r, point) ==
  /\ gap(RoomPolylinesReturned[r].box.xmin, RoomPolylinesReturned[r].box.xmax, point.x)
       <= 20 * TEXT_MATCH_TOLERANCE
  /\ gap(RoomPolylinesReturned[r].box.ymin, RoomPolylinesReturned[r].box.ymax, point.y)
       <= 20 * TEXT_MATCH_TOLERANCE
  /\ distanceTo2(RoomPolylinesReturned[r], point)
       < (20 * TEXT_MATCH_TOLERANCE) * (20 * TEXT_MATCH_TOLERANCE)

(* room r is the nearest room within the tolerance, the first of them when  *)
(* several are equally near                                                 *)
NearestWithin(r, point) ==
  /\ WithinTolerance(r, point)
  /\ \A q \in 1..Len(RoomPolylinesReturned) :
       (q # r /\ WithinTolerance(q, point)) =>
         \/ distanceTo2(RoomPolylinesReturned[r], point)
              < distanceTo2(RoomPolylinesReturned[q], point)
         \/ /\ distanceTo2(RoomPolylinesReturned[r], point)
                = distanceTo2(RoomPolylinesReturned[q], point)
            /\ r < q

(* the texts the claim gives to room r: those inside its polygon, then      *)
(* those inside no accepted polygon that have it as their nearest room      *)
LabelsClaimed(r) ==
  LET isInside(te) == contains(RoomPolylinesReturned[r], te.point)
      isAttached(te) ==
        ~InsideAccepted(te.point) /\ NearestWithin(r, te.point)
  IN labelsOf(SelectSeq(TextsReturned, isInside)) \o
     labelsOf(SelectSeq(TextsReturned, isAttached))

TextsAsClaimed ==
  /\ \A r \in 1..Len(RoomsReturned) :
       /\ RoomsReturned[r].allLabels = LabelsClaimed(r)
       /\ RoomsReturned[r].name = pickLabel(RoomsReturned[r].allLabels)
  /\ \A k \in 1..Len(TextsReturned) :
       TextsReturned[k].matched <=>
         \/ InsideAccepted(TextsReturned[k].point)
         \/ \E r \in 1..Len(RoomsReturned) :
              NearestWithin(r, TextsReturned[k].point)

(* C25: a text inside no accepted polygon is attached to the nearest        *)
(* accepted polygon when that is within the tolerance, less than 500 units  *)
(* away, and to no room otherwise; a text matched in the strict pass is in  *)
(* the rooms that contain it only; the label of every room is the           *)
(* pickLabel choice over its candidate list.                                *)
C25_NearestWithinTolerance == TextsAsClaimed

(* a room of two labels whose second label came from a text outside every   *)
(* accepted polygon and has become the name of the room, in a file with     *)
(* two rooms                                                                *)
C25_Witness ==
  /\ Len(RoomsReturned) = 2
  /\ Len(TextsReturned) = 2
  /\ contains(RoomPolylinesReturned[1], TextsReturned[1].point)
  /\ ~InsideAccepted(TextsReturned[2].point)
  /\ TextsReturned[2].matched
  /\ Len(RoomsReturned[1].allLabels) = 2
  /\ RoomsReturned[1].name = TextsReturned[2].text
  /\ RoomsReturned[1].name # TextsReturned[1].text

----------------------------------------------------------------------------
Parsed == parsed # Null

LayersOfFile == extractLayerNames(dxf)

(* the boundary entities of the file, and its text entities with a text and *)
(* a position                                                               *)
BoundaryEntitiesOfFile == SelectSeq(dxf.entities[1], isBoundaryEntity)

TextEntitiesOfFile ==
  LET isText(e) == isTextEntity(e) /\ hasTextAndPosition(e)
  IN SelectSeq(dxf.entities[1], isText)

AcceptedBoundaries ==
  Len(parsed[1].lwPolylineVerts) + Len(parsed[1].legacyPolylineVerts)

AcceptedTexts == Len(parsed[1].texts)

NoBoundaryLayer ==
  \A k \in 1..Len(LayersOfFile) : ~BOUNDARY_LAYER_PATTERNS_test(LayersOfFile[k])

NoLabelLayer ==
  \A k \in 1..Len(LayersOfFile) : ~TEXT_LAYER_PATTERNS_test(LayersOfFile[k])

AllLayersBlacklisted ==
  \A k \in 1..Len(LayersOfFile) : isAnnotationLayer(LayersOfFile[k])

TextsOffBlacklist ==
  LET isOff(e) == ~isAnnotationLayer(layerOf(e))
  IN SelectSeq(TextEntitiesOfFile, isOff)

(* C27: without a layer that matches a boundary pattern the boundary        *)
(* entities of every layer are accepted; without a layer that matches a     *)
(* label pattern the text entities of every layer off the blacklist are     *)
(* accepted, and those of every layer when all layers are blacklisted; a    *)
(* file with boundary entities has an accepted boundary, and a file with    *)
(* text entities has an accepted text.                                      *)
C27_AsStated ==
  Parsed =>
    /\ NoBoundaryLayer => AcceptedBoundaries = Len(BoundaryEntitiesOfFile)
    /\ (NoLabelLayer /\ ~AllLayersBlacklisted) =>
         AcceptedTexts >= Len(TextsOffBlacklist)
    /\ (NoLabelLayer /\ AllLayersBlacklisted) =>
         AcceptedTexts = Len(TextEntitiesOfFile)
    /\ Len(BoundaryEntitiesOfFile) > 0 => AcceptedBoundaries > 0
    /\ Len(TextEntitiesOfFile) > 0 => AcceptedTexts > 0

====
